---- MODULE Spec2Model ----
(***************************************************************************)
(* State-machine model of the SiHAS device communication layer:            *)
(*   sender.send                 (UDP request/response with retry)         *)
(*   packet_builder              (request frames, extract_registers,       *)
(*                                parse_server_recv)                       *)
(*   SihasBase.poll / command    (Device Session)                          *)
(*   Debouncer, SihasProxy       (Debounced Poll Cache)                    *)
(* Byte strings are sequences over 0..255; Python index i is TLA+ index    *)
(* i + 1.  Python None is the record NoneVal.  Exceptions are named by     *)
(* their class name; "none" means the call returned normally.              *)
(***************************************************************************)
EXTENDS Integers, Sequences, FiniteSets, TLC

(* ---------------------------- bounds ----------------------------------- *)
\* largest clock value (seconds) explored with every call of the proxy
MaxTime == 5
\* largest clock value (seconds) explored with update(force=False) alone
MaxBurstTime == 8
\* number of distinct register banks a device may answer with
NumBanks == 2
\* longest run of receive timeouts the environment produces before a reply
MaxTimeouts == 4
\* largest retry argument tried on send() directly
MaxRetry == 4
\* size of a run of update() calls, and the span in seconds it is made in
BurstCalls == 5
BurstWindow == 1
\* responses of every length 0..MaxShortLen are decoded, besides those of
\* about POLL_RESPONSE_LENGTH bytes
MaxShortLen == 10
\* number of byte patterns the decoded datagrams are filled with
NumFills == 3
\* number of threads that call Debouncer.run at once, and the last clock
\* reading they are followed to
NumCallers == 2
MaxRaceTime == 5
\* number of threads that build frames at once, and the number of frames
\* each of them builds
NumBuilders == 2
MaxBuilds == 1
\* last clock reading the thermostat is followed to
MaxHcmTime == 4
\* largest event count a push datagram declares
MaxEventCount == 2
\* longest EventPacketPacket.events explored
MaxEvents == 4

(* ------------------------ program constants ---------------------------- *)
POLL_RESPONSE_LENGTH == 137
POS_FUNCTION_CODE == 7
REG_LENG == 64
DEFAULT_DEBOUNCE_DURATION == 3
\* retry=3 passed by SihasBase.poll and SihasBase.command
SESSION_RETRY == 3
REG_RBM_STAT_CUR == 2
REG_RBM_PCT_CUR == 3

\* climate.py: the fields of a room register
HCM_MASK_ONOFF == 1
HCM_MASK_OPMOD == 6
HCM_MASK_VALVE == 8
HCM_MASK_CURTMP == 1008
HCM_MASK_SETTMP == 64512

(* ------------------------------ values --------------------------------- *)
NoneVal == [isNone |-> TRUE, val |-> <<>>]
Some(v) == [isNone |-> FALSE, val |-> v]
\* Python truthiness of an Optional[List]: None and [] are falsy
Truthy(x) == (~x.isNone) /\ Len(x.val) > 0

\* a Python bool as it reads
PyBool(b) == IF b THEN "True" ELSE "False"

\* b & 0x08 != 0
Bit08(b) == ((b \div 8) % 2) = 1

\* A datagram of n bytes: function/status byte fc at offset 7, and from
\* offset 9 on the big-endian registers of bank k (register i = 256*k + i).
MkResp(n, fc, k) ==
    [j \in 1..n |->
        IF j = POS_FUNCTION_CODE + 1 THEN fc
        ELSE IF j >= 10 THEN (IF (j - 10) % 2 = 0 THEN k ELSE (j - 10) \div 2)
        ELSE 0]

Bank(k) == [i \in 1..REG_LENG |-> 256 * k + (i - 1)]
Banks == {Bank(k) : k \in 0..(NumBanks - 1)}

GoodResp(k) == MkResp(POLL_RESPONSE_LENGTH, 3, k)
NakResp == MkResp(9, 11, 0)
NakFullResp == MkResp(POLL_RESPONSE_LENGTH, 11, 1)
WrongSizeResp == MkResp(100, 3, 1)
\* the reply to a write: a frame as long as the request
CommandAckResp == MkResp(12, 6, 0)
ShortResp == MkResp(5, 3, 0)
EmptyResp == <<>>

(* what one sock.recv() can do *)
Timeout == [kind |-> "timeout", data |-> <<>>]
SockErr == [kind |-> "oserror", data |-> <<>>]
Data(b) == [kind |-> "data", data |-> b]

Replies == {GoodResp(k) : k \in 0..(NumBanks - 1)}
             \cup {NakResp, NakFullResp, WrongSizeResp, CommandAckResp,
                   ShortResp, EmptyResp}
FinalOutcomes == {SockErr} \cup {Data(b) : b \in Replies}

Timeouts(n) == [i \in 1..n |-> Timeout]
\* A script is what successive recv() calls yield; past its end every
\* recv() times out.
Scripts == {Timeouts(n) \o <<o>> : n \in 0..(MaxTimeouts - 1), o \in FinalOutcomes}
             \cup {Timeouts(MaxTimeouts)}

(* ----------------------------- sender.send ----------------------------- *)
\* One pass of the `while retry:` loop and what follows it; `sent` counts
\* the sock.sendto calls made so far.
RECURSIVE sendLoop(_, _, _)
sendLoop(script, retry, sent) ==
    IF retry = 0
    THEN [exc |-> "socket.timeout", resp |-> <<>>, sent |-> sent]
    ELSE LET o == IF script = <<>> THEN Timeout ELSE Head(script)
             rest == IF script = <<>> THEN <<>> ELSE Tail(script)
         IN  IF o.kind = "timeout"
             THEN sendLoop(rest, retry - 1, sent + 1)
             ELSE IF o.kind = "oserror"
             THEN [exc |-> "OSError", resp |-> <<>>, sent |-> sent + 1]
             ELSE IF Len(o.data) <= POS_FUNCTION_CODE
             THEN [exc |-> "IndexError", resp |-> <<>>, sent |-> sent + 1]
             ELSE IF Bit08(o.data[POS_FUNCTION_CODE + 1])
             THEN [exc |-> "ModbusNotEnabledError", resp |-> <<>>, sent |-> sent + 1]
             ELSE [exc |-> "none", resp |-> o.data, sent |-> sent + 1]

\* a reply that carries the NAK bit at the status byte
IsNak(o) ==
    /\ o.kind = "data"
    /\ Len(o.data) > POS_FUNCTION_CODE
    /\ Bit08(o.data[POS_FUNCTION_CODE + 1])

\* a receive that fails otherwise than by timing out: recv() raising OSError,
\* or resp[7] raising IndexError on a reply shorter than 8 bytes
IsRecvError(o) ==
    \/ o.kind = "oserror"
    \/ (o.kind = "data" /\ Len(o.data) <= POS_FUNCTION_CODE)

\* variant: the budget counts re-sends, so one attempt more is made
send_oneMore(script, retry) == sendLoop(script, retry + 1, 0)

\* variant: a NAK reply is handled like a timeout
send_nakAsTimeout(script, retry) ==
    sendLoop([i \in 1..Len(script) |->
                 IF IsNak(script[i]) THEN Timeout ELSE script[i]], retry, 0)

\* variant: every receive error is handled like a timeout
send_errAsTimeout(script, retry) ==
    sendLoop([i \in 1..Len(script) |->
                 IF IsRecvError(script[i]) THEN Timeout ELSE script[i]], retry, 0)

send(script, retry) == sendLoop(script, retry, 0)

(* ------------------- packet_builder.extract_registers ------------------ *)
\* variant: the two bytes of a register are read low byte first
bytesToU16Arry_little(p) ==
    [i \in 1..REG_LENG |-> p[9 + (i - 1) * 2 + 2] * 256 + p[9 + (i - 1) * 2 + 1]]

\* int.from_bytes(p[offset : offset + 2], "big") for offset = 9 + i * 2
bytesToU16Arry(p) ==
    [i \in 1..REG_LENG |-> p[9 + (i - 1) * 2 + 1] * 256 + p[9 + (i - 1) * 2 + 2]]

\* variant: the size is tested before the NAK bit
extract_registers_sizeFirst(p) ==
    IF Len(p) <= POS_FUNCTION_CODE
    THEN [exc |-> "IndexError", regs |-> <<>>, args |-> <<>>]
    ELSE IF Len(p) # POLL_RESPONSE_LENGTH
    THEN [exc |-> "PacketSizeError", regs |-> <<>>,
          args |-> <<POLL_RESPONSE_LENGTH, Len(p)>>]
    ELSE IF Bit08(p[POS_FUNCTION_CODE + 1])
    THEN [exc |-> "ModbusNotEnabledError", regs |-> <<>>, args |-> <<>>]
    ELSE [exc |-> "none", regs |-> bytesToU16Arry(p), args |-> <<>>]

\* exc is the exception raised ("none": the registers are returned), args
\* the (expect, actual) pair a PacketSizeError is built with.  The first
\* thing read is p[7], which raises IndexError when p has no such byte.
extract_registers(p) ==
    IF Len(p) <= POS_FUNCTION_CODE
    THEN [exc |-> "IndexError", regs |-> <<>>, args |-> <<>>]
    ELSE IF Bit08(p[POS_FUNCTION_CODE + 1])
    THEN [exc |-> "ModbusNotEnabledError", regs |-> <<>>, args |-> <<>>]
    ELSE IF Len(p) # POLL_RESPONSE_LENGTH
    THEN [exc |-> "PacketSizeError", regs |-> <<>>,
          args |-> <<POLL_RESPONSE_LENGTH, Len(p)>>]
    ELSE [exc |-> "none", regs |-> bytesToU16Arry(p), args |-> <<>>]

(* ---------------------- packet_builder: requests ----------------------- *)
HEADER_LENGTH == 7
FUNCTION_CODE_POLL == 3
FUNCTION_CODE_COMMAND == 6
FUNCTION_CODE_SET_SERVER_ADDRESS == 53

\* v.to_bytes(2, "big") raises OverflowError unless 0 <= v < 2^16
Fits16(v) == v \in 0..65535
to_bytes2(v) == <<v \div 256, v % 256>>

\* sum(b)
RECURSIVE sum(_)
sum(b) == IF b = <<>> THEN 0 ELSE Head(b) + sum(Tail(b))

\* variant: reduced modulo 255
calc_checksum_mod255(b) == <<sum(b) % 255>>

\* _calc_checksum: (sum(b) & 0xFF).to_bytes(1, "big")
calc_checksum(b) == <<sum(b) % 256>>

\* variant: the counter wraps one step late
pid_wrapLate(p) == (IF p > 255 THEN 0 ELSE p) + 1

\* packet_builder.pid() when _pid is p: the new _pid, which is also the
\* value returned
pid(p) == (IF p >= 255 THEN 0 ELSE p) + 1

\* _build_header(dlen) once pid() has returned id
build_header(id, dlen) ==
    IF ~Fits16(dlen) THEN [exc |-> "OverflowError", bytes |-> <<>>]
    ELSE LET h == to_bytes2(id) \o <<0>> \o <<0>> \o to_bytes2(dlen)
             hc == h \o calc_checksum(h)
         IN  IF Len(hc) # HEADER_LENGTH
             THEN [exc |-> "AssertionError", bytes |-> <<>>]
             ELSE [exc |-> "none", bytes |-> hc]

\* packet_builder.poll() once pid() has returned id
pb_poll(id) ==
    LET h == build_header(id, 6)
    IN  IF h.exc # "none" THEN h
        ELSE [exc |-> "none",
              bytes |-> h.bytes \o <<FUNCTION_CODE_POLL>> \o to_bytes2(0)
                          \o to_bytes2(64)]

\* variant: the register index is cut to one byte
pb_command_masked(id, reg_idx, reg_val) ==
    LET h == build_header(id, 6)
    IN  IF h.exc # "none" THEN h
        ELSE IF ~Fits16(reg_idx) \/ ~Fits16(reg_val)
        THEN [exc |-> "OverflowError", bytes |-> <<>>]
        ELSE [exc |-> "none",
              bytes |-> h.bytes \o <<FUNCTION_CODE_COMMAND>>
                          \o to_bytes2(reg_idx % 256) \o to_bytes2(reg_val)]

\* packet_builder.command(reg_idx, reg_val) once pid() has returned id
pb_command(id, reg_idx, reg_val) ==
    LET h == build_header(id, 6)
    IN  IF h.exc # "none" THEN h
        ELSE IF ~Fits16(reg_idx) \/ ~Fits16(reg_val)
        THEN [exc |-> "OverflowError", bytes |-> <<>>]
        ELSE [exc |-> "none",
              bytes |-> h.bytes \o <<FUNCTION_CODE_COMMAND>>
                          \o to_bytes2(reg_idx) \o to_bytes2(reg_val)]

\* socket.inet_aton of a dotted quad given as its four decimal fields
inet_aton(ip) ==
    IF Len(ip) = 4 /\ \A i \in 1..4 : ip[i] \in 0..255
    THEN [exc |-> "none", bytes |-> [i \in 1..4 |-> ip[i]]]
    ELSE [exc |-> "OSError", bytes |-> <<>>]

\* packet_builder.advertise(ip, port) once pid() has returned id
pb_advertise(id, ip, port) ==
    LET h == build_header(id, 6)
        a == inet_aton(ip)
    IN  IF h.exc # "none" THEN h
        ELSE IF ~Fits16(port) THEN [exc |-> "OverflowError", bytes |-> <<>>]
        ELSE IF a.exc # "none" THEN a
        ELSE [exc |-> "none",
              bytes |-> h.bytes \o <<FUNCTION_CODE_SET_SERVER_ADDRESS>>
                          \o to_bytes2(port) \o a.bytes \o <<188, 22>>]

(* -------------------- packet_builder: push packets --------------------- *)
FC_EVENT == 46
FC_PERIODIC == 36
VER_OFFSET == 54
VER_SIZE == 2
REG_NUM_OFFSET == 56
REG_IDX_OFFSET == 57
REG_IDX_SIZE == 2
REG_VAL_OFFSET == 59
REG_VAL_SIZE == 128
NUMBER_OF_EVENTS_OFFSET == 54
EVT_REG_IDX_OFFSET == 55
EVT_REG_VAL_OFFSET == 57
SSID_OFFSET == 14
SSID_SIZE == 32
MAC_OFFSET == 46
MAC_SIZE == 6
DEVICE_TYPE_OFFSET == 52
CFG_OFFSET == 53

\* p[a:b] for 0 <= a <= b: a slice never raises, it is cut at the end of p
slice(p, a, b) == SubSeq(p, a + 1, IF b < Len(p) THEN b ELSE Len(p))

\* int.from_bytes(b, "big"); 0 for the empty string
RECURSIVE from_bytes(_)
from_bytes(b) ==
    IF b = <<>> THEN 0
    ELSE 256 * from_bytes(SubSeq(b, 1, Len(b) - 1)) + b[Len(b)]

\* whether b.decode("utf-8") succeeds (it raises UnicodeDecodeError if not)
RECURSIVE utf8_valid(_)
utf8_valid(b) ==
    IF b = <<>> THEN TRUE
    ELSE LET c == b[1]
             n == Len(b)
             cont(x) == x \in 128..191
         IN  IF c < 128 THEN utf8_valid(Tail(b))
             ELSE IF c \in 194..223
             THEN n >= 2 /\ cont(b[2]) /\ utf8_valid(SubSeq(b, 3, n))
             ELSE IF c \in 224..239
             THEN /\ n >= 3
                  /\ b[2] \in (IF c = 224 THEN 160..191
                               ELSE IF c = 237 THEN 128..159 ELSE 128..191)
                  /\ cont(b[3])
                  /\ utf8_valid(SubSeq(b, 4, n))
             ELSE IF c \in 240..244
             THEN /\ n >= 4
                  /\ b[2] \in (IF c = 240 THEN 144..191
                               ELSE IF c = 244 THEN 128..143 ELSE 128..191)
                  /\ cont(b[3]) /\ cont(b[4])
                  /\ utf8_valid(SubSeq(b, 5, n))
             ELSE FALSE

\* Meta._to_null_terminate_string: the bytes before the first zero, or all
\* of them, decoded; a str is kept as its UTF-8 bytes
to_null_terminate_string(b) ==
    LET zeros == {i \in 1..Len(b) : b[i] = 0}
        cut == IF zeros = {} THEN b
               ELSE SubSeq(b, 1, (CHOOSE i \in zeros : \A j \in zeros : i <= j) - 1)
    IN  IF utf8_valid(cut) THEN [exc |-> "none", str |-> cut]
        ELSE [exc |-> "UnicodeDecodeError", str |-> <<>>]

\* const.device_type_from_enum: the device-type byte of the packet
device_type_from_enum(b) == b

\* Meta(p), for p of at least 54 bytes
Meta(p) ==
    LET ssid == to_null_terminate_string(
                    slice(p, SSID_OFFSET, SSID_OFFSET + SSID_SIZE))
    IN  IF ssid.exc # "none" THEN [exc |-> ssid.exc, meta |-> <<>>]
        ELSE IF Len(p) <= CFG_OFFSET THEN [exc |-> "IndexError", meta |-> <<>>]
        ELSE [exc |-> "none",
              meta |-> [ssid |-> ssid.str,
                        mac |-> slice(p, MAC_OFFSET, MAC_OFFSET + MAC_SIZE),
                        type |-> device_type_from_enum(p[DEVICE_TYPE_OFFSET + 1]),
                        cfg |-> p[CFG_OFFSET + 1]]]

\* What `p % 2` does in BytesConv.ball_u16 when p, a bytes object, holds a
\* '%' character: printf-style formatting, which raises TypeError or
\* ValueError or gives a string, empty or not.  Which of them is left open.
FormatOutcomes == {"TypeError", "ValueError", "nonempty", "empty"}
HoldsPercent(q) == \E i \in 1..Len(q) : q[i] = 37

\* BytesConv.ball_u16(q, "big").  `q % 2` on a bytes object without a '%'
\* character raises TypeError (not all arguments converted); fmt is what it
\* does otherwise.
ball_u16(q, fmt) ==
    LET f == IF HoldsPercent(q) THEN fmt ELSE "TypeError"
    IN  IF f \in {"TypeError", "ValueError"} THEN [exc |-> f, list |-> <<>>]
        ELSE IF f = "nonempty" THEN [exc |-> "ValueError", list |-> <<>>]
        ELSE [exc |-> "none",
              list |-> [i \in 1..((Len(q) + 1) \div 2) |->
                          from_bytes(slice(q, 2 * (i - 1), 2 * (i - 1) + 2))]]

\* PeriodicUpdatePacket(p)
PeriodicUpdatePacket(p, fmt) ==
    LET m == Meta(p)
        r == ball_u16(slice(p, REG_VAL_OFFSET, REG_VAL_OFFSET + REG_VAL_SIZE), fmt)
    IN  IF m.exc # "none" THEN [exc |-> m.exc, pkt |-> <<>>]
        ELSE IF Len(p) <= REG_NUM_OFFSET THEN [exc |-> "IndexError", pkt |-> <<>>]
        ELSE IF r.exc # "none" THEN [exc |-> r.exc, pkt |-> <<>>]
        ELSE [exc |-> "none",
              pkt |-> [meta |-> m.meta,
                       version |-> from_bytes(slice(p, VER_OFFSET, VER_OFFSET + VER_SIZE)),
                       reg_num |-> p[REG_NUM_OFFSET + 1],
                       reg_idx |-> from_bytes(slice(p, REG_IDX_OFFSET,
                                                    REG_IDX_OFFSET + REG_IDX_SIZE)),
                       registers |-> r.list]]

\* EventData(idx, val) of pass i (from 0) of the loop of EventPacketPacket
EventData(p, i) ==
    LET idx_offset == EVT_REG_IDX_OFFSET + (i - 1) * 4
        val_offset == EVT_REG_VAL_OFFSET + (i - 1) * 4
    IN  [register_index |-> from_bytes(slice(p, idx_offset, idx_offset + 2)),
         register_value |-> from_bytes(slice(p, val_offset, val_offset + 2)),
         sensor_id |-> "None"]

\* EventPacketPacket(p) when the list of the class body holds evs: no
\* instance has a list of its own, self.events is that one list, and
\* events is what it holds afterwards
EventPacketPacket(p, evs) ==
    LET m == Meta(p)
    IN  IF m.exc # "none" THEN [exc |-> m.exc, pkt |-> <<>>, events |-> evs]
        ELSE IF Len(p) <= NUMBER_OF_EVENTS_OFFSET
        THEN [exc |-> "IndexError", pkt |-> <<>>, events |-> evs]
        ELSE LET n == p[NUMBER_OF_EVENTS_OFFSET + 1]
                 all == evs \o [i \in 1..n |-> EventData(p, i - 1)]
             IN  [exc |-> "none",
                  pkt |-> [meta |-> m.meta, number_of_events |-> n,
                           events |-> all],
                  events |-> all]

\* packet_builder.parse_server_recv(p): kind is "None" when None is returned
parse_server_recv(p, evs, fmt) ==
    IF Len(p) < 55
    THEN [exc |-> "none", kind |-> "None", pkt |-> <<>>, events |-> evs]
    ELSE IF p[POS_FUNCTION_CODE + 1] = FC_EVENT
    THEN LET e == EventPacketPacket(p, evs)
         IN  [exc |-> e.exc, kind |-> IF e.exc = "none" THEN "event" ELSE "none",
              pkt |-> e.pkt, events |-> e.events]
    ELSE IF p[POS_FUNCTION_CODE + 1] = FC_PERIODIC
    THEN LET q == PeriodicUpdatePacket(p, fmt)
         IN  [exc |-> q.exc, kind |-> IF q.exc = "none" THEN "periodic" ELSE "none",
              pkt |-> q.pkt, events |-> evs]
    ELSE [exc |-> "none", kind |-> "None", pkt |-> <<>>, events |-> evs]

(* --------------------------- SihasBase --------------------------------- *)
\* every exception class the transport and codec can raise derives from
\* Exception, so an `except Exception` clause catches all of them
ExceptionClasses == {"socket.timeout", "OSError", "IndexError",
                     "ModbusNotEnabledError", "PacketSizeError",
                     "AssertionError"}
Caught(handlers, exc) ==
    exc \in handlers \/ ("Exception" \in handlers /\ exc \in ExceptionClasses)

\* variant: no catch-all clause
poll_handlers_narrow == {"ModbusNotEnabledError", "socket.timeout"}

\* the except clauses of SihasBase.poll
poll_handlers == {"ModbusNotEnabledError", "socket.timeout", "Exception"}
\* the except clauses of SihasBase.command
command_handlers == {"ModbusNotEnabledError", "socket.timeout", "Exception"}

\* SihasBase.poll on a session whose flag is `avail`, against a transport
\* that behaves as `script`.  Result: the flag afterwards, the returned
\* value, the exception that escapes ("none" if it returns) and the number
\* of datagrams sent.
poll(avail, script) ==
    LET s == send(script, SESSION_RETRY)
        e == IF s.exc = "none" THEN extract_registers(s.resp)
             ELSE [exc |-> s.exc, regs |-> <<>>, args |-> <<>>]
        \* self._attr_available = True; assert len(regs) == REG_LENG
        availInTry == IF e.exc = "none" THEN TRUE ELSE avail
        exc == IF e.exc = "none" /\ Len(e.regs) # REG_LENG
               THEN "AssertionError" ELSE e.exc
    IN  IF exc = "none"
        THEN [available |-> TRUE, ret |-> Some(e.regs), exc |-> "none",
              sent |-> s.sent]
        ELSE IF Caught(poll_handlers, exc)
        THEN [available |-> FALSE, ret |-> NoneVal, exc |-> "none",
              sent |-> s.sent]
        ELSE [available |-> availInTry, ret |-> NoneVal, exc |-> exc,
              sent |-> s.sent]

\* variant: a failed write leaves the flag as it was
command_keepFlag(avail, script) ==
    LET s == send(script, SESSION_RETRY)
    IN  IF s.exc = "none" /\ Len(s.resp) > 0
        THEN [available |-> TRUE, ret |-> TRUE, exc |-> "none", sent |-> s.sent]
        ELSE [available |-> avail, ret |-> FALSE, exc |-> "none", sent |-> s.sent]

\* SihasBase.command; ret is the returned bool
command(avail, script) ==
    LET s == send(script, SESSION_RETRY)
    IN  IF s.exc = "none" /\ Len(s.resp) > 0
        THEN [available |-> TRUE, ret |-> TRUE, exc |-> "none", sent |-> s.sent]
        ELSE IF s.exc = "none" \/ Caught(command_handlers, s.exc)
        THEN [available |-> FALSE, ret |-> FALSE, exc |-> "none", sent |-> s.sent]
        ELSE [available |-> avail, ret |-> FALSE, exc |-> s.exc, sent |-> s.sent]

(* ----------------------------- Debouncer ------------------------------- *)
\* variant: the timestamp is never moved
run_noStamp(force, t, last_exc, duration) ==
    IF force \/ (t - last_exc) > duration
    THEN [ran |-> TRUE, last_excuted |-> last_exc]
    ELSE [ran |-> FALSE, last_excuted |-> last_exc]

\* variant: the window ends at exactly `duration` seconds
run_atLeast(force, t, last_exc, duration) ==
    IF force \/ (t - last_exc) >= duration
    THEN [ran |-> TRUE, last_excuted |-> t]
    ELSE [ran |-> FALSE, last_excuted |-> last_exc]

\* variant: force is ignored
run_ignoreForce(force, t, last_exc, duration) ==
    IF (t - last_exc) > duration
    THEN [ran |-> TRUE, last_excuted |-> t]
    ELSE [ran |-> FALSE, last_excuted |-> last_exc]

\* variant: the timestamp moves on every call
run_stampAlways(force, t, last_exc, duration) ==
    IF force \/ (t - last_exc) > duration
    THEN [ran |-> TRUE, last_excuted |-> t]
    ELSE [ran |-> FALSE, last_excuted |-> t]

\* Debouncer.run(force) called when the clock reads t: whether the callback
\* runs (the returned bool) and the new _last_excuted
run(force, t, last_exc, duration) ==
    IF force \/ (t - last_exc) > duration
    THEN [ran |-> TRUE, last_excuted |-> t]
    ELSE [ran |-> FALSE, last_excuted |-> last_exc]

(* ----------------------------- SihasProxy ------------------------------ *)
\* variant: self.registers = self.poll()
internal_update_assignAlways(avail, regs, script) ==
    LET r == poll(avail, script)
    IN  [available |-> r.available, registers |-> r.ret.val,
         ret |-> r.ret, exc |-> r.exc, sent |-> r.sent]

\* SihasProxy._internal_update: poll, keep the bank when the poll gave None
internal_update(avail, regs, script) ==
    LET r == poll(avail, script)
    IN  [available |-> r.available,
         registers |-> IF Truthy(r.ret) THEN r.ret.val ELSE regs,
         ret |-> r.ret, exc |-> r.exc, sent |-> r.sent]

(* ------------------------------ state ---------------------------------- *)
VARIABLES
    now,             \* what datetime.now() reads, in seconds
    last_excuted,    \* Debouncer._last_excuted of the proxy
    attr_available,  \* SihasProxy._attr_available
    registers,       \* SihasProxy.registers
    last,            \* record of the most recent call on the proxy
    pollAt,          \* clock reading of the most recent poll() of the proxy, -1 if none
    prevPollAt,      \* clock reading of the poll() before that one, -1 if none
                     \* (kept where update(force=False) is the only call)
    lastCycle,       \* outcome of the most recent SihasBase.poll/command of the proxy
    goodBank,        \* bank returned by the most recent successful poll of the proxy
    burst,           \* the current run of update(force=False) calls made within one second
    rbm,             \* a plain session (Rbm300): flag and the attributes update() sets
    rlast,           \* record of the most recent call on the plain session
    sendLog,         \* record of the most recent direct send() call
    decLog,          \* record of the most recent direct extract_registers() call
    pb_pid,          \* packet_builder._pid
    frame,           \* record of the most recent frame built
    events,          \* EventPacketPacket.events, the list of the class body
    pushLog,         \* record of the most recent parse_server_recv() call
    listen,          \* SiHASCoordinator: the sessions it dispatches to and a
                     \* record of the most recent datagram_received() call
    deb,             \* a Debouncer whose run() is called from several threads:
                     \* the clock, _last_excuted, the callbacks made and where
                     \* each thread is in run()
    builders,        \* where each thread that builds frames is in pid()
    refreshAt,       \* clock reading of the most recent poll that
                     \* SihasProxy.command() made, -1 if none
    hcm              \* an Hcm300 proxy, one HcmVirtualThermostat of it and the
                     \* room register of the device

vars == <<now, last_excuted, attr_available, registers, last, pollAt,
          prevPollAt, lastCycle, goodBank, burst, rbm, rlast, sendLog,
          decLog, pb_pid, frame, events, pushLog, listen, deb, builders,
          refreshAt, hcm>>

\* the state of the sessions and of the transport
sessionVars == <<now, last_excuted, attr_available, registers, last, pollAt,
                 prevPollAt, lastCycle, goodBank, burst, rbm, rlast, sendLog>>
\* the state of the codec.  A session builds the request it sends with
\* packet_builder.poll() or packet_builder.command(), which takes an id from
\* _pid; what the session does next depends on the reply alone, never on the
\* id, so the builds are followed in SpecFrame and the specifications of the
\* sessions leave _pid where it is.
codecVars == <<decLog, pb_pid, frame, events, pushLog>>
\* the state of the listener and of the threads
otherVars == <<listen, deb, builders, refreshAt, hcm>>

ZeroBank == [i \in 1..REG_LENG |-> 0]

\* transports tried against a poll of the proxy: one per branch of send and
\* extract_registers
PollScripts == {<<Data(GoodResp(k))>> : k \in 0..(NumBanks - 1)}
                 \cup {<<Timeout, Data(GoodResp(0))>>, Timeouts(MaxTimeouts),
                       <<Data(NakResp)>>, <<Data(WrongSizeResp)>>,
                       <<Data(ShortResp)>>, <<SockErr>>}
\* transports tried against a write of the proxy
CommandScripts == {<<Data(CommandAckResp)>>, Timeouts(MaxTimeouts),
                   <<Data(NakResp)>>, <<SockErr>>}

NoBurst == [start |-> -1, base |-> -1, end |-> -1, calls |-> 0, polls |-> 0]

\* The sessions registered in hass.data[DOMAIN], by hardware id: two device
\* sessions and an entry that holds None.
SessionMacs == {"2e:2f:30:31:32:33", "aa:bb:cc:00:01:33"}
DomainData == [k \in SessionMacs \cup {"00:00:00:00:00:00"} |->
                  IF k \in SessionMacs THEN Some(k) ELSE NoneVal]

\* The device behind the Hcm300 proxy: its temperature-unit register
\* (registers[59]) is not zero, so temperatures are in steps of 0.5, and
\* its room register starts switched off, valve shut, at 22 steps with 40
\* steps set.
HcmDevUnit == 1
HcmDevInit == 22 * 16 + 40 * 1024

\* the threads that call run() of one Debouncer
Callers == 1..NumCallers

\* the threads that build frames
Builders == 1..NumBuilders

Init ==
    /\ now = 0
    /\ last_excuted = 0          \* Debouncer.__init__: datetime.now()
    /\ attr_available = FALSE    \* SihasBase.__init__
    /\ registers = ZeroBank      \* SihasProxy.__init__: [0] * 64
    /\ last = [seq |-> 0, op |-> "init", force |-> FALSE, ran |-> FALSE,
               ack |-> "none", poll |-> "none", polls |-> 0, sent |-> 0,
               exc |-> "none", ret |-> "None"]
    /\ pollAt = -1
    /\ prevPollAt = -1
    /\ lastCycle = "none"
    /\ goodBank = ZeroBank
    /\ burst = NoBurst
    /\ rbm = [available |-> FALSE, is_closed |-> "None", is_closing |-> "None",
              is_opening |-> "None", position |-> -1]
    /\ rlast = [seq |-> 0, op |-> "init", script |-> <<>>, ret |-> NoneVal,
                ok |-> FALSE, polls |-> 0, exc |-> "none", sent |-> 0]
    /\ sendLog = [called |-> FALSE, retry |-> 0, script |-> <<>>,
                  exc |-> "none", sent |-> 0]
    /\ decLog = [called |-> FALSE, p |-> <<>>, exc |-> "none", regs |-> <<>>,
                 args |-> <<>>]
    /\ pb_pid = 0                \* class body of packet_builder: _pid = 0
    /\ frame = [kind |-> "none", id |-> 0, bytes |-> <<>>, exc |-> "none",
                args |-> <<>>, wrapped |-> FALSE]
    /\ events = <<>>             \* class body of EventPacketPacket: events = []
    /\ pushLog = [called |-> FALSE, p |-> <<>>, exc |-> "none", kind |-> "none",
                  pkt |-> <<>>]
    /\ listen = [called |-> FALSE, data |-> <<>>, exc |-> "none", to |-> "none",
                 how |-> "none",
                 sessions |-> [k \in SessionMacs |-> [kind |-> "none", seq |-> 0]]]
    /\ deb = [clock |-> 0,
              last_excuted |-> 0,   \* Debouncer.__init__: datetime.now()
              callbacks |-> 0, overlap |-> FALSE,
              thr |-> [c \in Callers |-> [pc |-> "idle", t |-> 0, ret |-> "none"]]]
    /\ builders = [b \in Builders |->
                      [pc |-> "idle", tmp |-> 0, calls |-> 0, returned |-> FALSE,
                       ret |-> 0, with |-> {}]]
    /\ refreshAt = -1
    /\ hcm = [clock |-> 0,
              last_excuted |-> 0,   \* Debouncer.__init__: datetime.now()
              dev |-> HcmDevInit,
              reg |-> 0, unit |-> 0,   \* SihasProxy.__init__: [0] * 64
              cache |-> NoneVal,    \* _register_cache: not set by __init__
              op |-> "init", exc |-> "none", sent |-> NoneVal, base |-> 0]

(* ------------------------------ clock ---------------------------------- *)
\* Time passes between two calls, up to the clock reading `limit`.  Calls are
\* serial and datetime.now() is read once, on entry to Debouncer.run; the
\* clock is taken never to run backwards.
Advance(limit) ==
    /\ now < limit
    /\ now' = now + 1
    /\ UNCHANGED <<last_excuted, attr_available, registers, last, pollAt,
                   prevPollAt, lastCycle, goodBank, burst, rbm, rlast, sendLog>>
    /\ UNCHANGED codecVars
    /\ UNCHANGED otherVars

Tick == Advance(MaxTime)

(* ------------------------- SihasProxy.update --------------------------- *)
\* update(force): Debouncer.run(force), whose callback is _internal_update
ProxyUpdate(force, script) ==
    LET d == run(force, now, last_excuted, DEFAULT_DEBOUNCE_DURATION)
        u == internal_update(attr_available, registers, script)
    IN  /\ last_excuted' = d.last_excuted
        /\ attr_available' = IF d.ran THEN u.available ELSE attr_available
        /\ registers' = IF d.ran THEN u.registers ELSE registers
        /\ last' = [seq |-> 1 - last.seq, op |-> "update", force |-> force,
                    ran |-> d.ran, ack |-> "none",
                    poll |-> IF ~d.ran THEN "none"
                             ELSE IF u.ret.isNone THEN "fail" ELSE "ok",
                    polls |-> IF d.ran THEN 1 ELSE 0,
                    sent |-> IF d.ran THEN u.sent ELSE 0,
                    exc |-> IF d.ran THEN u.exc ELSE "none",
                    ret |-> "None"]
        /\ pollAt' = IF d.ran THEN now ELSE pollAt
        /\ lastCycle' = IF ~d.ran THEN lastCycle
                        ELSE IF u.ret.isNone THEN "fail" ELSE "ok"
        /\ goodBank' = IF d.ran /\ ~u.ret.isNone THEN u.ret.val ELSE goodBank
        /\ UNCHANGED now

Update ==
    /\ \E force \in BOOLEAN, script \in PollScripts : ProxyUpdate(force, script)
    /\ UNCHANGED <<prevPollAt, burst, rbm, rlast, sendLog>>
    /\ UNCHANGED codecVars
    /\ UNCHANGED otherVars

(* ------------------------ SihasProxy.command --------------------------- *)
\* variant: the refresh is made only after an acknowledged write
refreshes_onAck(c) == c.exc = "none" /\ c.ret

\* whether command() goes on to _internal_update() after super().command()
\* gave c: always, unless super().command() raised
refreshes(c) == c.exc = "none"

\* variant: the result of super().command() is handed back
proxy_command_ret_passThrough(c) == PyBool(c.ret)

\* what SihasProxy.command hands back: the value of super().command() is
\* dropped and the body has no return statement
proxy_command_ret(c) == "None"

\* command(idx, val): super().command(idx, val), then _internal_update();
\* cscript answers the write, pscript the poll that follows
ProxyCommand(cscript, pscript) ==
    LET c == command(attr_available, cscript)
        polled == refreshes(c)
        u == internal_update(c.available, registers, pscript)
    IN  /\ attr_available' = IF polled THEN u.available ELSE c.available
        /\ registers' = IF polled THEN u.registers ELSE registers
        /\ last' = [seq |-> 1 - last.seq, op |-> "command", force |-> FALSE,
                    ran |-> FALSE,
                    ack |-> IF c.ret THEN "ack" ELSE "nak",
                    poll |-> IF ~polled THEN "none"
                             ELSE IF u.ret.isNone THEN "fail" ELSE "ok",
                    polls |-> IF polled THEN 1 ELSE 0,
                    sent |-> c.sent + (IF polled THEN u.sent ELSE 0),
                    exc |-> IF polled THEN u.exc ELSE c.exc,
                    ret |-> proxy_command_ret(c)]
        /\ pollAt' = IF polled THEN now ELSE pollAt
        /\ lastCycle' = IF polled THEN (IF u.ret.isNone THEN "fail" ELSE "ok")
                        ELSE IF c.ret THEN "ok" ELSE "fail"
        /\ goodBank' = IF polled /\ ~u.ret.isNone THEN u.ret.val ELSE goodBank
        /\ UNCHANGED <<now, last_excuted>>

Command ==
    /\ \E cscript \in CommandScripts, pscript \in PollScripts :
          ProxyCommand(cscript, pscript)
    /\ UNCHANGED <<prevPollAt, burst, rbm, rlast, sendLog>>
    /\ UNCHANGED codecVars
    /\ UNCHANGED otherVars

Next == Tick \/ Update \/ Command

Spec == Init /\ [][Next]_vars

(* ------------------- updates counted in one-second runs ---------------- *)
\* update(force=False), with the bookkeeping of the run of calls it belongs
\* to: a run starts with a call, takes the calls that follow within
\* BurstWindow seconds of its first one and ends after BurstCalls calls.
\* base is _last_excuted when the run starts.
BurstUpdate ==
    /\ \E script \in PollScripts : ProxyUpdate(FALSE, script)
    /\ LET d == run(FALSE, now, last_excuted, DEFAULT_DEBOUNCE_DURATION)
           p == IF d.ran THEN 1 ELSE 0
           cont == /\ burst.calls \in 1..(BurstCalls - 1)
                   /\ now - burst.start <= BurstWindow
       IN  /\ burst' = IF cont
                       THEN [burst EXCEPT !.calls = @ + 1, !.polls = @ + p,
                                          !.end = now]
                       ELSE [start |-> now, base |-> last_excuted, end |-> now,
                             calls |-> 1, polls |-> p]
           /\ prevPollAt' = IF d.ran THEN pollAt ELSE prevPollAt
    /\ UNCHANGED <<rbm, rlast, sendLog>>
    /\ UNCHANGED codecVars
    /\ UNCHANGED otherVars

BurstTick == Advance(MaxBurstTime)

NextBurst == BurstTick \/ BurstUpdate

SpecBurst == Init /\ [][NextBurst]_vars

(* ------------------ a session without a cache: Rbm300 ------------------ *)
\* Rbm300.update: `if regs := self.poll():` then the four attributes
RbmUpdateOn(S) ==
    /\ \E script \in S :
         LET r == poll(rbm.available, script)
             t == Truthy(r.ret)
             regs == r.ret.val
         IN  /\ rbm' = [available |-> r.available,
                        is_closed |-> IF t THEN PyBool(regs[REG_RBM_STAT_CUR + 1] = 0)
                                      ELSE rbm.is_closed,
                        is_closing |-> IF t THEN PyBool(regs[REG_RBM_STAT_CUR + 1] = 3)
                                       ELSE rbm.is_closing,
                        is_opening |-> IF t THEN PyBool(regs[REG_RBM_STAT_CUR + 1] = 4)
                                       ELSE rbm.is_opening,
                        position |-> IF t THEN regs[REG_RBM_PCT_CUR + 1]
                                     ELSE rbm.position]
             /\ rlast' = [seq |-> 1 - rlast.seq, op |-> "poll", script |-> script,
                          ret |-> r.ret, ok |-> ~r.ret.isNone, polls |-> 1,
                          exc |-> r.exc, sent |-> r.sent]
    /\ UNCHANGED <<now, last_excuted, attr_available, registers, last, pollAt,
                   prevPollAt, lastCycle, goodBank, burst, sendLog>>
    /\ UNCHANGED codecVars
    /\ UNCHANGED otherVars

\* Rbm300.open_cover and its siblings: self.command(index, value)
RbmCommandOn(S) ==
    /\ \E script \in S :
         LET c == command(rbm.available, script)
         IN  /\ rbm' = [rbm EXCEPT !.available = c.available]
             /\ rlast' = [seq |-> 1 - rlast.seq, op |-> "command",
                          script |-> script, ret |-> NoneVal, ok |-> c.ret,
                          polls |-> 0, exc |-> c.exc, sent |-> c.sent]
    /\ UNCHANGED <<now, last_excuted, attr_available, registers, last, pollAt,
                   prevPollAt, lastCycle, goodBank, burst, sendLog>>
    /\ UNCHANGED codecVars
    /\ UNCHANGED otherVars

RbmUpdate == RbmUpdateOn(Scripts)
RbmCommand == RbmCommandOn(Scripts)

NextSession == RbmUpdate \/ RbmCommand

SpecSession == Init /\ [][NextSession]_vars

(* ------------- the cached and the plain session side by side ---------- *)
PlainUpdate == RbmUpdateOn(PollScripts)
\* transports tried against a write of the plain session: those of the
\* proxy, an acknowledgement on the last attempt and one that comes too
\* late, a reply too short to hold a status byte, a NAK after a timeout
PlainCommandScripts ==
    CommandScripts
      \cup {Timeouts(SESSION_RETRY - 1) \o <<Data(CommandAckResp)>>,
            Timeouts(SESSION_RETRY) \o <<Data(CommandAckResp)>>,
            <<Data(ShortResp)>>, <<Timeout, Data(NakResp)>>}

PlainCommand == RbmCommandOn(PlainCommandScripts)

NextAvail == PlainUpdate \/ PlainCommand \/ Command

SpecAvail == Init /\ [][NextAvail]_vars

(* --------------------------- send() alone ------------------------------ *)
SendCall ==
    /\ \E retry \in 0..MaxRetry, script \in Scripts :
         LET s == send(script, retry)
         IN  sendLog' = [called |-> TRUE, retry |-> retry, script |-> script,
                         exc |-> s.exc, sent |-> s.sent]
    /\ UNCHANGED <<now, last_excuted, attr_available, registers, last, pollAt,
                   prevPollAt, lastCycle, goodBank, burst, rbm, rlast>>
    /\ UNCHANGED codecVars
    /\ UNCHANGED otherVars

NextSend == SendCall

SpecSend == Init /\ [][NextSend]_vars

(* --------------------- extract_registers() alone ----------------------- *)
\* status bytes tried at offset 7: with and without bit 0x08
StatusBytes == {0, 3, 8, 11, 131, 139, 247, 255}

\* A datagram of n bytes with status byte fc, every other byte at offset o
\* being o * f modulo 256.
PatResp(n, fc, f) ==
    [j \in 1..n |-> IF j = POS_FUNCTION_CODE + 1 THEN fc ELSE ((j - 1) * f) % 256]

DecodeLens == (0..MaxShortLen)
                \cup {POLL_RESPONSE_LENGTH - 1, POLL_RESPONSE_LENGTH,
                      POLL_RESPONSE_LENGTH + 1}

DecodeInputs == {PatResp(n, fc, f) : n \in DecodeLens, fc \in StatusBytes,
                                     f \in 0..(NumFills - 1)}
                  \cup Replies

ExtractCall ==
    /\ \E p \in DecodeInputs :
         LET e == extract_registers(p)
         IN  decLog' = [called |-> TRUE, p |-> p, exc |-> e.exc,
                        regs |-> e.regs, args |-> e.args]
    /\ UNCHANGED sessionVars
    /\ UNCHANGED otherVars
    /\ UNCHANGED <<pb_pid, frame, events, pushLog>>

NextDecode == ExtractCall

SpecDecode == Init /\ [][NextDecode]_vars

(* ------------------------- building requests --------------------------- *)
\* register indexes and values tried, the last one too wide for 16 bits
WordInputs == {0, 255, 256, 4660, 65535, 65536}
\* data lengths tried on _build_header
HeaderLens == {0, 6, 255, 256, 65535, 65536}
AdvertiseIps == {<<192, 168, 2, 8>>, <<10, 0, 0, 1>>}
AdvertisePorts == {502, 8000}

\* One frame is built: pid() is called once, by _build_header, before
\* anything that can fail.  wrapped records that _pid has gone round.
Built(kind, r, args) ==
    /\ pb_pid' = pid(pb_pid)
    /\ frame' = [kind |-> kind, id |-> pid(pb_pid), bytes |-> r.bytes,
                 exc |-> r.exc, args |-> args,
                 wrapped |-> frame.wrapped \/ pb_pid >= 255]
    /\ UNCHANGED sessionVars
    /\ UNCHANGED otherVars
    /\ UNCHANGED <<decLog, events, pushLog>>

BuildHeader ==
    \E dlen \in HeaderLens :
        Built("header", build_header(pid(pb_pid), dlen), <<dlen>>)

BuildPoll == Built("poll", pb_poll(pid(pb_pid)), <<>>)

BuildCommand ==
    \E reg_idx \in WordInputs, reg_val \in WordInputs :
        Built("command", pb_command(pid(pb_pid), reg_idx, reg_val),
              <<reg_idx, reg_val>>)

BuildAdvertise ==
    \E ip \in AdvertiseIps, port \in AdvertisePorts :
        Built("advertise", pb_advertise(pid(pb_pid), ip, port), <<ip, port>>)

NextFrame == BuildHeader \/ BuildPoll \/ BuildCommand \/ BuildAdvertise

SpecFrame == Init /\ [][NextFrame]_vars

(* ------------------- update() after command() ------------------------- *)
\* transports tried against the polls and the writes of a proxy whose
\* update() and command() are called in turn
RefreshPollScripts == {<<Data(GoodResp(k))>> : k \in 0..(NumBanks - 1)}
                        \cup {Timeouts(MaxTimeouts), <<Data(NakResp)>>,
                              <<Data(WrongSizeResp)>>, <<Data(ShortResp)>>}
RefreshCommandScripts == {<<Data(CommandAckResp)>>, Timeouts(MaxTimeouts)}

RefreshTick ==
    /\ now < MaxTime
    /\ now' = now + 1
    /\ UNCHANGED <<last_excuted, attr_available, registers, last, pollAt,
                   prevPollAt, lastCycle, goodBank, burst, rbm, rlast, sendLog>>
    /\ UNCHANGED codecVars
    /\ UNCHANGED <<listen, deb, builders, refreshAt, hcm>>

RefreshUpdate ==
    /\ \E force \in BOOLEAN, script \in RefreshPollScripts :
          ProxyUpdate(force, script)
    /\ UNCHANGED <<prevPollAt, burst, rbm, rlast, sendLog>>
    /\ UNCHANGED codecVars
    /\ UNCHANGED <<listen, deb, builders, refreshAt, hcm>>

\* command(idx, val): the write, then _internal_update()
RefreshCommand ==
    /\ \E cscript \in RefreshCommandScripts, pscript \in RefreshPollScripts :
          /\ ProxyCommand(cscript, pscript)
          /\ refreshAt' = IF refreshes(command(attr_available, cscript))
                          THEN now ELSE refreshAt
    /\ UNCHANGED <<prevPollAt, burst, rbm, rlast, sendLog>>
    /\ UNCHANGED codecVars
    /\ UNCHANGED <<listen, deb, builders, hcm>>

NextRefresh == RefreshTick \/ RefreshUpdate \/ RefreshCommand

SpecRefresh == Init /\ [][NextRefresh]_vars

(* ----------------------- parse_server_recv() alone --------------------- *)
\* the 32-byte SSID field: "SiHAS" and zeros, 32 letters without a zero,
\* a byte that is not UTF-8, a three-byte UTF-8 character
NameSsid == [i \in 1..SSID_SIZE |->
                IF i <= 5 THEN <<83, 105, 72, 65, 83>>[i] ELSE 0]
FullSsid == [i \in 1..SSID_SIZE |-> 65]
BadSsid == [i \in 1..SSID_SIZE |-> IF i = 1 THEN 255 ELSE 0]
WideSsid == [i \in 1..SSID_SIZE |->
                IF i <= 3 THEN <<237, 149, 156>>[i] ELSE 0]
SsidFields == {NameSsid, FullSsid, BadSsid, WideSsid}

\* A push datagram of n bytes: function code fc at offset 7, the SSID field
\* at offsets 14..45, cnt at offset 54 (the event count, or the first byte
\* of the version) and every other byte equal to its offset.
MkPush(n, fc, ssid, cnt) ==
    [j \in 1..n |->
        IF j = POS_FUNCTION_CODE + 1 THEN fc
        ELSE IF j - 1 \in SSID_OFFSET..(SSID_OFFSET + SSID_SIZE - 1)
        THEN ssid[j - SSID_OFFSET]
        ELSE IF j = NUMBER_OF_EVENTS_OFFSET + 1 THEN cnt
        ELSE (j - 1) % 256]

PushLens == {0, 54, 55, 56, 57, 58, 60, REG_VAL_OFFSET + REG_VAL_SIZE}
PushCodes == {FC_EVENT, FC_PERIODIC, FUNCTION_CODE_POLL}

\* a periodic datagram whose register area starts with a '%' character
PercentPush == [MkPush(61, FC_PERIODIC, NameSsid, 0) EXCEPT ![REG_VAL_OFFSET + 1] = 37]

PushInputs ==
    {MkPush(n, fc, NameSsid, cnt) :
        n \in PushLens, fc \in PushCodes, cnt \in 0..MaxEventCount}
      \cup {MkPush(60, fc, ssid, 1) : fc \in {FC_EVENT, FC_PERIODIC},
                                      ssid \in SsidFields}
      \cup {PercentPush}

\* parse_server_recv(p), made while the list of the class body is no
\* longer than MaxEvents afterwards
ParseCall ==
    /\ \E p \in PushInputs :
       \E fmt \in (IF HoldsPercent(slice(p, REG_VAL_OFFSET,
                                          REG_VAL_OFFSET + REG_VAL_SIZE))
                   THEN FormatOutcomes ELSE {"TypeError"}) :
         LET r == parse_server_recv(p, events, fmt)
         IN  /\ Len(r.events) <= MaxEvents
             /\ events' = r.events
             /\ pushLog' = [called |-> TRUE, p |-> p, exc |-> r.exc,
                            kind |-> r.kind, pkt |-> r.pkt]
    /\ UNCHANGED sessionVars
    /\ UNCHANGED otherVars
    /\ UNCHANGED <<decLog, pb_pid, frame>>

NextPush == ParseCall

SpecPush == Init /\ [][NextPush]_vars

(* --------------------------- SiHASCoordinator -------------------------- *)
HexDigits == <<"0", "1", "2", "3", "4", "5", "6", "7",
               "8", "9", "a", "b", "c", "d", "e", "f">>

\* bytes.hex(":") of the first n bytes of b, in lower case
RECURSIVE hex_colon(_, _)
hex_colon(b, n) ==
    IF n = 0 THEN ""
    ELSE (IF n = 1 THEN "" ELSE hex_colon(b, n - 1) \o ":")
            \o HexDigits[(b[n] \div 16) + 1] \o HexDigits[(b[n] % 16) + 1]

\* MacConv.to_string(b)
to_string(b) == hex_colon(b, Len(b))

\* device.handle_event(pkt) and device.handle_update(pkt): the session
\* takes the packet.  What is kept of a session is the kind of the last
\* packet it took and a bit that every packet it takes flips.
handle_event(sess, pkt) == [kind |-> "event", seq |-> 1 - sess.seq]
handle_update(sess, pkt) == [kind |-> "periodic", seq |-> 1 - sess.seq]

\* SiHASCoordinator.datagram_received(data, addr) when the sessions are
\* sess and the list of the class body of EventPacketPacket holds evs.
\* exc is the exception that leaves the callback, to the key of the session
\* a handler was called on.
datagram_received(data, sess, evs, fmt) ==
    LET r == parse_server_recv(data, evs, fmt)
        mac == to_string(r.pkt.meta.mac)
    IN  IF r.exc # "none"
        THEN [exc |-> r.exc, to |-> "none", how |-> "none",
              sessions |-> sess, events |-> r.events, parsed |-> r]
        ELSE IF r.kind = "None"               \* if not pkt: return
        THEN [exc |-> "none", to |-> "none", how |-> "none",
              sessions |-> sess, events |-> r.events, parsed |-> r]
        ELSE IF mac \notin DOMAIN DomainData  \* self.hass.data[DOMAIN][mac]
        THEN [exc |-> "KeyError", to |-> "none", how |-> "none",
              sessions |-> sess, events |-> r.events, parsed |-> r]
        ELSE IF ~Truthy(DomainData[mac])      \* if not device: return
        THEN [exc |-> "none", to |-> "none", how |-> "none",
              sessions |-> sess, events |-> r.events, parsed |-> r]
        ELSE IF r.kind = "event"
        THEN [exc |-> "none", to |-> mac, how |-> "handle_event",
              sessions |-> [sess EXCEPT ![mac] = handle_event(@, r.pkt)],
              events |-> r.events, parsed |-> r]
        ELSE [exc |-> "none", to |-> mac, how |-> "handle_update",
              sessions |-> [sess EXCEPT ![mac] = handle_update(@, r.pkt)],
              events |-> r.events, parsed |-> r]

\* hardware ids of the datagrams received: the two sessions, the entry that
\* holds None, and one that is not registered
MacBytes == {<<46, 47, 48, 49, 50, 51>>, <<170, 187, 204, 0, 1, 51>>,
             <<0, 0, 0, 0, 0, 0>>, <<222, 173, 190, 239, 0, 51>>}

\* MkPush with the hardware id mac at offsets 46..51
MkPushMac(n, fc, ssid, cnt, mac) ==
    [j \in 1..n |->
        IF j - 1 \in MAC_OFFSET..(MAC_OFFSET + MAC_SIZE - 1)
        THEN mac[j - MAC_OFFSET]
        ELSE MkPush(n, fc, ssid, cnt)[j]]

\* datagrams received: event datagrams of every hardware id, and with no,
\* one and two events; periodic datagrams with and without a '%' character
\* in the register area; datagrams that are short, truncated, of another
\* function code or with an SSID that is not UTF-8
ListenInputs ==
    {MkPushMac(63, FC_EVENT, NameSsid, 1, mac) : mac \in MacBytes}
      \cup {MkPush(63, FC_EVENT, NameSsid, cnt) : cnt \in 0..MaxEventCount}
      \cup {[MkPushMac(187, FC_PERIODIC, NameSsid, 0, mac)
                EXCEPT ![REG_VAL_OFFSET + 1] = 37] :
                    mac \in {<<46, 47, 48, 49, 50, 51>>,
                             <<222, 173, 190, 239, 0, 51>>}}
      \cup {MkPush(n, FC_PERIODIC, NameSsid, 1) : n \in {54, 55, 56, 187}}
      \cup {MkPush(55, FC_EVENT, NameSsid, 2),
            MkPush(63, FUNCTION_CODE_POLL, NameSsid, 1),
            MkPush(63, FC_EVENT, BadSsid, 1)}

\* the state after datagram_received(data) returned or raised, d being
\* what it did
Received(data, d) ==
    /\ Len(d.events) <= MaxEvents
    /\ events' = d.events
    /\ pushLog' = [called |-> TRUE, p |-> data, exc |-> d.parsed.exc,
                   kind |-> d.parsed.kind, pkt |-> d.parsed.pkt]
    /\ listen' = [called |-> TRUE, data |-> data, exc |-> d.exc,
                  to |-> d.to, how |-> d.how,
                  sessions |-> d.sessions]

\* a datagram arrives, while the list of the class body is no longer than
\* MaxEvents afterwards
Receive ==
    /\ \E data \in ListenInputs :
       \E fmt \in (IF HoldsPercent(slice(data, REG_VAL_OFFSET,
                                          REG_VAL_OFFSET + REG_VAL_SIZE))
                   THEN FormatOutcomes ELSE {"TypeError"}) :
         Received(data, datagram_received(data, listen.sessions, events, fmt))
    /\ UNCHANGED sessionVars
    /\ UNCHANGED <<decLog, pb_pid, frame, deb, builders, refreshAt, hcm>>

NextListen == Receive

SpecListen == Init /\ [][NextListen]_vars

(* ------------------ Debouncer.run() from several threads --------------- *)
\* SihasProxy.update() of one proxy is called by the update() of each of
\* its sub-entities, which the platform runs on worker threads, up to
\* PARALLEL_UPDATES of them at a time.  Debouncer.run holds no lock, and a
\* thread may be suspended between any two of its statements: reading the
\* clock, testing the elapsed time, moving _last_excuted, and the callback.
ThreadStep(c, pc, t, ret) ==
    [deb EXCEPT !.thr[c] = [pc |-> pc, t |-> t, ret |-> ret]]

\* the clock moves on
RaceTick ==
    /\ deb.clock < MaxRaceTime
    /\ deb' = [deb EXCEPT !.clock = @ + 1]
    /\ UNCHANGED sessionVars
    /\ UNCHANGED codecVars
    /\ UNCHANGED <<listen, builders, refreshAt, hcm>>

\* t = datetime.now(), on entry to run(force=False); overlap records that
\* another thread was inside run() at that moment
RunReadClock(c) ==
    /\ deb.thr[c].pc = "idle"
    /\ deb' = [ThreadStep(c, "test", deb.clock, "none") EXCEPT
                  !.overlap = @ \/ \E o \in Callers \ {c} :
                                      deb.thr[o].pc \in {"test", "stamp", "callback"}]
    /\ UNCHANGED sessionVars
    /\ UNCHANGED codecVars
    /\ UNCHANGED <<listen, builders, refreshAt, hcm>>

\* if force or (t - self._last_excuted).total_seconds() > self._duration
RunTest(c) ==
    /\ deb.thr[c].pc = "test"
    /\ deb' = IF (deb.thr[c].t - deb.last_excuted) > DEFAULT_DEBOUNCE_DURATION
              THEN ThreadStep(c, "stamp", deb.thr[c].t, "none")
              ELSE ThreadStep(c, "done", deb.thr[c].t, "False")
    /\ UNCHANGED sessionVars
    /\ UNCHANGED codecVars
    /\ UNCHANGED <<listen, builders, refreshAt, hcm>>

\* variant: _last_excuted is left where it was
RunStamp_noStamp(c) ==
    /\ deb.thr[c].pc = "stamp"
    /\ deb' = ThreadStep(c, "callback", deb.thr[c].t, "none")
    /\ UNCHANGED sessionVars
    /\ UNCHANGED codecVars
    /\ UNCHANGED <<listen, builders, refreshAt, hcm>>

\* self._last_excuted = t
RunStamp(c) ==
    /\ deb.thr[c].pc = "stamp"
    /\ deb' = [ThreadStep(c, "callback", deb.thr[c].t, "none") EXCEPT
                  !.last_excuted = deb.thr[c].t]
    /\ UNCHANGED sessionVars
    /\ UNCHANGED codecVars
    /\ UNCHANGED <<listen, builders, refreshAt, hcm>>

\* self._callback(); return True.  The callback is _internal_update, one
\* poll of the device.
RunCallback(c) ==
    /\ deb.thr[c].pc = "callback"
    /\ deb' = [ThreadStep(c, "done", deb.thr[c].t, "True") EXCEPT
                  !.callbacks = @ + 1]
    /\ UNCHANGED sessionVars
    /\ UNCHANGED codecVars
    /\ UNCHANGED <<listen, builders, refreshAt, hcm>>

NextRace ==
    \/ RaceTick
    \/ \E c \in Callers : RunReadClock(c)
    \/ \E c \in Callers : RunTest(c)
    \/ \E c \in Callers : RunStamp(c)
    \/ \E c \in Callers : RunCallback(c)

SpecRace == Init /\ [][NextRace]_vars

(* --------------------- pid() from several threads ---------------------- *)
\* Each session builds its frames on the thread that polls it, and all of
\* them take their ids from the one counter packet_builder._pid.  pid()
\* holds no lock; a thread may be suspended between any two of its reads
\* and writes of _pid: the test, the reset, the read and the write of
\* `_pid += 1`, and the read of the value returned.
\* with[b] is the set of threads whose latest call of pid() overlapped the
\* latest call of b.
PidFrame ==
    /\ UNCHANGED sessionVars
    /\ UNCHANGED <<decLog, frame, events, pushLog, listen, deb, refreshAt,
                   hcm>>

\* pid() is called and returns with no other call under way; these calls
\* are followed before the threads start
PidSerial ==
    /\ \A b \in Builders : builders[b].pc = "idle" /\ builders[b].calls = 0
    /\ pb_pid' = pid(pb_pid)
    /\ UNCHANGED builders
    /\ PidFrame

\* if packet_builder._pid >= 0xFF, on entry to pid()
PidTest(b) ==
    /\ builders[b].pc = "idle"
    /\ builders[b].calls < MaxBuilds
    /\ LET inside == {o \in Builders \ {b} : builders[o].pc # "idle"}
       IN  builders' = [o \in Builders |->
              IF o = b
              THEN [builders[b] EXCEPT
                       !.pc = IF pb_pid >= 255 THEN "reset" ELSE "load",
                       !.calls = @ + 1, !.returned = FALSE, !.ret = 0,
                       !.with = inside]
              ELSE IF o \in inside
              THEN [builders[o] EXCEPT !.with = @ \cup {b}]
              ELSE [builders[o] EXCEPT !.with = @ \ {b}]]
    /\ UNCHANGED pb_pid
    /\ PidFrame

\* packet_builder._pid = 0
PidReset(b) ==
    /\ builders[b].pc = "reset"
    /\ pb_pid' = 0
    /\ builders' = [builders EXCEPT ![b].pc = "load"]
    /\ PidFrame

\* the read of packet_builder._pid in `packet_builder._pid += 1`
PidLoad(b) ==
    /\ builders[b].pc = "load"
    /\ builders' = [builders EXCEPT ![b].pc = "store", ![b].tmp = pb_pid]
    /\ UNCHANGED pb_pid
    /\ PidFrame

\* the write of packet_builder._pid in `packet_builder._pid += 1`
PidStore(b) ==
    /\ builders[b].pc = "store"
    /\ pb_pid' = builders[b].tmp + 1
    /\ builders' = [builders EXCEPT ![b].pc = "return", ![b].tmp = 0]
    /\ PidFrame

\* return packet_builder._pid
PidReturn(b) ==
    /\ builders[b].pc = "return"
    /\ builders' = [builders EXCEPT ![b].pc = "idle", ![b].returned = TRUE,
                                    ![b].ret = pb_pid]
    /\ UNCHANGED pb_pid
    /\ PidFrame

NextPid ==
    \/ PidSerial
    \/ \E b \in Builders : PidTest(b)
    \/ \E b \in Builders : PidReset(b)
    \/ \E b \in Builders : PidLoad(b)
    \/ \E b \in Builders : PidStore(b)
    \/ \E b \in Builders : PidReturn(b)

SpecPid == Init /\ [][NextPid]_vars

(* ------------------------ HcmVirtualThermostat ------------------------- *)
\* a & b and a | b on non-negative integers
RECURSIVE band(_, _)
band(a, b) ==
    IF a = 0 \/ b = 0 THEN 0
    ELSE (a % 2) * (b % 2) + 2 * band(a \div 2, b \div 2)
RECURSIVE bor(_, _)
bor(a, b) ==
    IF a = 0 THEN b
    ELSE IF b = 0 THEN a
    ELSE (IF a % 2 = 1 \/ b % 2 = 1 THEN 1 ELSE 0) + 2 * bor(a \div 2, b \div 2)

\* temperature_magnification, in half degrees: 0.5 if registers[59] != 0
\* else 1
temperature_magnification(unit) == IF unit # 0 THEN 1 ELSE 2

\* _apply_hvac_mode_on_cache(onoff) when _register_cache is cache
apply_hvac_mode_on_cache(cache, onoff) ==
    bor(cache - band(cache, HCM_MASK_ONOFF), IF onoff = "heat" THEN 1 ELSE 0)

\* _apply_target_temperature_on_cache(t) when _register_cache is cache and
\* registers[59] is unit; t2 is t in half degrees
apply_target_temperature_on_cache(cache, t2, unit) ==
    bor(cache - band(cache, HCM_MASK_SETTMP),
        (t2 \div temperature_magnification(unit)) * 1024)

\* target temperatures asked for, in half degrees: 20 and 21.5
HcmTemps == {40, 43}

\* The device takes a write of its room register: the on/off bit and the
\* set temperature of the value written, the rest it measures itself.
hcm_device_write(dev, val) ==
    band(val, HCM_MASK_ONOFF) + band(val, HCM_MASK_SETTMP)
        + band(dev, HCM_MASK_OPMOD + HCM_MASK_VALVE + HCM_MASK_CURTMP)

HcmFrame ==
    /\ UNCHANGED sessionVars
    /\ UNCHANGED codecVars
    /\ UNCHANGED <<listen, deb, builders, refreshAt>>

HcmTick ==
    /\ hcm.clock < MaxHcmTime
    /\ hcm' = [hcm EXCEPT !.clock = @ + 1]
    /\ HcmFrame

\* HcmVirtualThermostat.update(): the proxy's debounced update, whose poll
\* succeeds or fails, then _register_cache = registers[room register]
HcmUpdate ==
    /\ \E ok \in BOOLEAN :
         LET d == run(FALSE, hcm.clock, hcm.last_excuted,
                      DEFAULT_DEBOUNCE_DURATION)
             polled == d.ran /\ ok
             reg == IF polled THEN hcm.dev ELSE hcm.reg
         IN  hcm' = [hcm EXCEPT !.last_excuted = d.last_excuted,
                                !.reg = reg,
                                !.unit = IF polled THEN HcmDevUnit ELSE @,
                                !.cache = Some(reg),
                                !.op = "update", !.exc = "none",
                                !.sent = NoneVal, !.base = hcm.reg]
    /\ HcmFrame

\* proxy.command(room register, val): the write, acknowledged or not, then
\* _internal_update(), whose poll succeeds or fails.  _register_cache is
\* not touched.  A value of more than 16 bits is not framed
\* (OverflowError, caught by command).
HcmCommand(op, val, ack, ok) ==
    LET sends == Fits16(val)
        dev == IF sends /\ ack THEN hcm_device_write(hcm.dev, val) ELSE hcm.dev
    IN  hcm' = [hcm EXCEPT !.dev = dev,
                           !.reg = IF ok THEN dev ELSE @,
                           !.unit = IF ok THEN HcmDevUnit ELSE @,
                           !.op = op, !.exc = "none",
                           !.sent = IF sends THEN Some(val) ELSE NoneVal,
                           !.base = hcm.reg]

\* reading _register_cache before the first update() raises AttributeError
HcmNoCache(op) ==
    hcm' = [hcm EXCEPT !.op = op, !.exc = "AttributeError",
                       !.sent = NoneVal, !.base = hcm.reg]

\* HcmVirtualThermostat.set_hvac_mode(hvac_mode)
HcmSetHvacMode ==
    /\ \E mode \in {"heat", "off"}, ack \in BOOLEAN, ok \in BOOLEAN :
         IF hcm.cache.isNone THEN HcmNoCache("set_hvac_mode")
         ELSE HcmCommand("set_hvac_mode",
                         apply_hvac_mode_on_cache(hcm.cache.val, mode),
                         ack, ok)
    /\ HcmFrame

\* HcmVirtualThermostat.set_temperature(temperature=t)
HcmSetTemperature ==
    /\ \E t2 \in HcmTemps, ack \in BOOLEAN, ok \in BOOLEAN :
         IF hcm.cache.isNone THEN HcmNoCache("set_temperature")
         ELSE HcmCommand("set_temperature",
                         apply_target_temperature_on_cache(hcm.cache.val, t2,
                                                           hcm.unit),
                         ack, ok)
    /\ HcmFrame

NextHcm == HcmTick \/ HcmUpdate \/ HcmSetHvacMode \/ HcmSetTemperature

SpecHcm == Init /\ [][NextHcm]_vars

(* ============================ properties =============================== *)
AllTimeout(script) == \A i \in 1..Len(script) : script[i].kind = "timeout"

\* what the first recv() that does not time out yields (Timeout if none does)
FirstReply(script) ==
    IF AllTimeout(script) THEN Timeout
    ELSE script[CHOOSE i \in 1..Len(script) :
                   /\ script[i].kind # "timeout"
                   /\ \A j \in 1..(i - 1) : script[j].kind = "timeout"]

\* how many recv() calls time out before the first that does not
LeadingTimeouts(script) ==
    IF AllTimeout(script) THEN Len(script)
    ELSE (CHOOSE i \in 1..Len(script) :
             /\ script[i].kind # "timeout"
             /\ \A j \in 1..(i - 1) : script[j].kind = "timeout") - 1

\* a step in which a call on the proxy is made
CallStep == last'.seq # last.seq

Elapsed == now - last_excuted

(* ---- C1 ---- *)
\* C1 as stated: send() with retry=3 against a transport whose every receive
\* times out makes exactly 4 sendto calls (1 + 3 retries) and then fails
\* with a timeout.
C1_FourAttempts ==
    (sendLog.retry = SESSION_RETRY /\ AllTimeout(sendLog.script))
        => (sendLog.sent = SESSION_RETRY + 1 /\ sendLog.exc = "socket.timeout")

\* C1 amended: send() with retry=3 against a transport whose every receive
\* times out makes exactly 3 sendto calls, the budget counting the attempts,
\* and then fails with a timeout; `sent` is the total for the call, so no
\* datagram follows the failure.
C1_ThreeAttempts ==
    (sendLog.retry = SESSION_RETRY /\ AllTimeout(sendLog.script))
        => (sendLog.sent = SESSION_RETRY /\ sendLog.exc = "socket.timeout")

C1_Witness ==
    /\ sendLog.retry = SESSION_RETRY
    /\ sendLog.script = Timeouts(MaxTimeouts)
    /\ sendLog.exc = "socket.timeout"
    /\ sendLog.sent = 3

(* ---- C2 ---- *)
\* C2: when update(force=False) is the only call made on a proxy, any two
\* successive polls of the device lie more than `duration` seconds apart, so
\* no window of length `duration` holds two polls.
C2_OnePollPerWindow ==
    prevPollAt # -1 => pollAt - prevPollAt > DEFAULT_DEBOUNCE_DURATION

C2_Witness ==
    /\ prevPollAt # -1
    /\ last.op = "update" /\ ~last.ran
    /\ now = pollAt

(* ---- C3 ---- *)
\* C3: SihasBase.poll never raises; whenever the reply is anything but a
\* well-formed poll response (timeout, NAK, wrong size, too short, socket
\* error) it returns None with the flag false, and what it returns otherwise
\* is the 64-register bank carried by that response.
C3_PollContained ==
    rlast.op = "poll" =>
        /\ rlast.exc = "none"
        /\ rlast.ret.isNone => ~rbm.available
        /\ (\A k \in 0..(NumBanks - 1) :
                FirstReply(rlast.script) # Data(GoodResp(k)))
             => rlast.ret.isNone
        /\ ~rlast.ret.isNone =>
             /\ Len(rlast.ret.val) = REG_LENG
             /\ \E k \in 0..(NumBanks - 1) :
                    /\ FirstReply(rlast.script) = Data(GoodResp(k))
                    /\ rlast.ret.val = Bank(k)

C3_Witness ==
    /\ rlast.op = "poll"
    /\ FirstReply(rlast.script) = Data(WrongSizeResp)
    /\ rlast.ret.isNone
    /\ rlast.exc = "none"
    /\ ~rbm.available
    /\ rbm.position # -1

(* ---- C4 ---- *)
\* C4 as stated: a session is unavailable at construction, and after any
\* call the flag is true iff that call succeeded; a SihasProxy.command()
\* call is counted as succeeded when its write was acknowledged and its
\* poll succeeded.
C4_FlagFollowsCall ==
    /\ (last.op = "init" => ~attr_available)
    /\ (last.op = "command"
          => (attr_available <=> (last.ack = "ack" /\ last.poll = "ok")))
    /\ (rlast.op = "init" => ~rbm.available)
    /\ (rlast.op # "init" => (rbm.available <=> rlast.ok))

\* C4 amended: a session is unavailable at construction, and afterwards the
\* flag is true iff the most recent SihasBase.poll or SihasBase.command
\* cycle succeeded; within SihasProxy.command that cycle is the poll that
\* follows the write, not the write.
C4_FlagFollowsCycle ==
    /\ (lastCycle = "none" => ~attr_available)
    /\ (lastCycle # "none" => (attr_available <=> lastCycle = "ok"))
    /\ (rlast.op = "init" => ~rbm.available)
    /\ (rlast.op # "init" => (rbm.available <=> rlast.ok))

\* a failed write on a plain session that an earlier poll had made available
C4_Witness ==
    /\ rlast.op = "command" /\ ~rlast.ok
    /\ rbm.position # -1
    /\ ~rbm.available
    /\ last.op = "command" /\ last.ack = "ack" /\ last.poll = "fail"
    /\ ~attr_available

(* ---- C5 ---- *)
\* C5 as stated: on every session a successful command() is followed by
\* exactly one poll before it returns, and the poll is made because the
\* write was acknowledged.
C5_PollBecauseAck ==
    /\ (last.op = "command" => (last.polls = 1 <=> last.ack = "ack"))
    /\ (rlast.op = "command" /\ rlast.ok => rlast.polls = 1)

\* C5 amended: every SihasProxy.command(), acknowledged or not, is followed
\* before it returns by exactly one poll, which replaces the bank when it
\* succeeds; SihasBase.command() on a session without a cache is followed by
\* none.
C5_ProxyAlwaysRefreshes ==
    /\ last.op = "command" =>
         /\ last.exc = "none"
         /\ last.polls = 1
         /\ last.poll \in {"ok", "fail"}
         /\ last.poll = "ok" => (registers \in Banks /\ registers = goodBank)
    /\ rlast.op = "command" => (rlast.polls = 0 /\ rlast.sent <= SESSION_RETRY)

\* a write that was not acknowledged, followed by a poll that replaced the bank
C5_Witness ==
    /\ last.op = "command" /\ last.ack = "nak"
    /\ last.polls = 1 /\ last.poll = "ok"
    /\ registers \in Banks

(* ---- C6 ---- *)
\* C6: a failed poll, whether made by update(), a forced update or the
\* refresh after a command, leaves the bank as it was: whenever the flag is
\* false, and after every failed poll, the bank is the one the last
\* successful poll returned (the initial zeros if none succeeded).
C6_StaleBankKept ==
    /\ ~attr_available => registers = goodBank
    /\ last.poll = "fail" => registers = goodBank

C6_Witness ==
    /\ ~attr_available
    /\ last.poll = "fail"
    /\ registers \in Banks

(* ---- C7 ---- *)
\* C7 as stated: with duration = 3 s, five update(force=False) calls made
\* within one second trigger exactly one poll.
C7_ExactlyOnePoll ==
    burst.calls = BurstCalls => burst.polls = 1

\* C7 amended: with duration = 3 s, five update(force=False) calls made
\* within one second trigger at most one poll: exactly one if the last of
\* them comes more than 3 s after _last_excuted as it stood before the
\* first, none otherwise (as right after construction).
C7_AtMostOnePoll ==
    burst.calls = BurstCalls =>
        /\ burst.polls <= 1
        /\ burst.polls = 1 <=> burst.end - burst.base > DEFAULT_DEBOUNCE_DURATION

C7_Witness ==
    /\ burst.calls = BurstCalls
    /\ burst.polls = 1
    /\ burst.end - burst.start <= BurstWindow

(* ---- C8 ---- *)
\* C8 as stated: update(force=False) polls iff at least `duration` seconds
\* have passed since the last poll actually made, exactly `duration`
\* included.
C8_SinceLastPoll ==
    [][(CallStep /\ last'.op = "update" /\ ~last'.force /\ pollAt # -1)
          => (last'.ran <=> now - pollAt >= DEFAULT_DEBOUNCE_DURATION)]_vars

\* C8 amended: update(force=False) polls iff more than `duration` seconds
\* have passed since _last_excuted, which is the construction time until
\* Debouncer.run first runs its callback and is not moved by the poll that
\* command() makes; at exactly `duration` seconds it does not poll.
C8_SinceLastExcuted ==
    [][(CallStep /\ last'.op = "update" /\ ~last'.force)
          => /\ last'.ran <=> Elapsed > DEFAULT_DEBOUNCE_DURATION
             /\ last'.polls = (IF last'.ran THEN 1 ELSE 0)
             /\ pollAt' = (IF last'.ran THEN now ELSE pollAt)]_vars

\* an update at exactly `duration` seconds that did not poll
C8_Witness ==
    /\ last.op = "update" /\ ~last.force /\ ~last.ran
    /\ Elapsed = DEFAULT_DEBOUNCE_DURATION
    /\ pollAt = last_excuted

(* ---- C9 ---- *)
\* C9: update(force=True) makes exactly one poll whatever time has passed
\* since the previous one, and _last_excuted becomes the time of the call.
C9_ForceAlwaysPolls ==
    [][(CallStep /\ last'.op = "update" /\ last'.force)
          => /\ last'.ran
             /\ last'.polls = 1
             /\ last'.poll \in {"ok", "fail"}
             /\ pollAt' = now
             /\ last_excuted' = now]_vars

\* a forced update made within `duration` seconds of construction
C9_Witness ==
    /\ last.op = "update" /\ last.force
    /\ last.polls = 1
    /\ last_excuted = now
    /\ now \in 1..DEFAULT_DEBOUNCE_DURATION

(* ---- C10 ---- *)
\* C10: update(force=False) made no more than `duration` seconds after
\* _last_excuted does nothing: Debouncer.run returns False, no datagram is
\* sent, and the bank, the flag and _last_excuted stay as they were.
C10_DebouncedIsNoOp ==
    [][(CallStep /\ last'.op = "update" /\ ~last'.force
          /\ Elapsed <= DEFAULT_DEBOUNCE_DURATION)
          => /\ ~last'.ran
             /\ last'.sent = 0
             /\ last'.polls = 0
             /\ registers' = registers
             /\ attr_available' = attr_available
             /\ last_excuted' = last_excuted
             /\ pollAt' = pollAt]_vars

\* a debounced update after a successful poll
C10_Witness ==
    /\ last.op = "update" /\ ~last.force /\ ~last.ran
    /\ last.sent = 0
    /\ attr_available
    /\ registers \in Banks
    /\ Elapsed \in 1..(DEFAULT_DEBOUNCE_DURATION - 1)

(* ---- C11 ---- *)
\* C11: when a reply with bit 0x08 set at byte 7 arrives while budget
\* remains, send() raises ModbusNotEnabledError at once: the datagram that
\* drew the reply is the last one sent, whatever budget is left.
C11_NakNotRetried ==
    (LeadingTimeouts(sendLog.script) < sendLog.retry
       /\ IsNak(FirstReply(sendLog.script)))
        => /\ sendLog.exc = "ModbusNotEnabledError"
           /\ sendLog.sent = LeadingTimeouts(sendLog.script) + 1

\* a NAK on the second attempt of four
C11_Witness ==
    /\ sendLog.retry = MaxRetry
    /\ sendLog.script = <<Timeout, Data(NakResp)>>
    /\ sendLog.exc = "ModbusNotEnabledError"
    /\ sendLog.sent = 2

(* ---- C12 ---- *)
\* C12 as stated: a receive error other than a timeout (socket failure, or
\* a reply too short to carry a status byte) is retried like a timeout and
\* leaves send() only once the budget is used up.
C12_ErrorsRetried ==
    (LeadingTimeouts(sendLog.script) < sendLog.retry
       /\ IsRecvError(FirstReply(sendLog.script)))
        => sendLog.sent = sendLog.retry

\* C12 amended: a receive error other than a timeout leaves send() at the
\* attempt where it happens, as OSError for a socket failure and IndexError
\* for a reply shorter than 8 bytes; no further datagram is sent and the
\* remaining budget is not used.
C12_ErrorsPropagateAtOnce ==
    (LeadingTimeouts(sendLog.script) < sendLog.retry
       /\ IsRecvError(FirstReply(sendLog.script)))
        => /\ sendLog.sent = LeadingTimeouts(sendLog.script) + 1
           /\ sendLog.exc = (IF FirstReply(sendLog.script).kind = "oserror"
                             THEN "OSError" ELSE "IndexError")

\* a socket failure on the first attempt of three
C12_Witness ==
    /\ sendLog.retry = SESSION_RETRY
    /\ sendLog.script = <<SockErr>>
    /\ sendLog.exc = "OSError"
    /\ sendLog.sent = 1

(* ---- C13 ---- *)
\* C13 as stated: on every session, the proxy included, command() never
\* raises and returns a bool that is true iff the write was acknowledged by
\* a non-NAK reply.
C13_ReturnsAck ==
    /\ rlast.op = "command" =>
         /\ rlast.exc = "none"
         /\ rlast.ok <=> (/\ LeadingTimeouts(rlast.script) < SESSION_RETRY
                          /\ FirstReply(rlast.script).kind = "data"
                          /\ ~IsRecvError(FirstReply(rlast.script))
                          /\ ~IsNak(FirstReply(rlast.script)))
    /\ last.op = "command" =>
         /\ last.exc = "none"
         /\ last.ret = PyBool(last.ack = "ack")

\* C13 amended: SihasBase.command never raises and returns True iff one of
\* its 3 attempts drew a reply of at least 8 bytes without the NAK bit,
\* False otherwise; SihasProxy.command never raises either but returns None
\* whether or not the write was acknowledged.
C13_ProxyReturnsNone ==
    /\ rlast.op = "command" =>
         /\ rlast.exc = "none"
         /\ rlast.ok <=> (/\ LeadingTimeouts(rlast.script) < SESSION_RETRY
                          /\ FirstReply(rlast.script).kind = "data"
                          /\ ~IsRecvError(FirstReply(rlast.script))
                          /\ ~IsNak(FirstReply(rlast.script)))
    /\ last.op = "command" =>
         /\ last.exc = "none"
         /\ last.ret = "None"

\* an acknowledged write on the proxy, and one acknowledged on the last
\* attempt on a plain session
C13_Witness ==
    /\ last.op = "command" /\ last.ack = "ack" /\ last.ret = "None"
    /\ rlast.op = "command" /\ rlast.ok
    /\ rlast.script = <<Timeout, Timeout, Data(CommandAckResp)>>

(* ---- C14 ---- *)
\* C14: for a response of any length that has a status byte at offset 7
\* with bit 0x08 set, extract_registers raises ModbusNotEnabledError, and
\* neither PacketSizeError nor anything else, whether or not the length is
\* 137.
C14_NakBeforeSize ==
    (decLog.called /\ Len(decLog.p) > POS_FUNCTION_CODE
       /\ Bit08(decLog.p[POS_FUNCTION_CODE + 1]))
        => decLog.exc = "ModbusNotEnabledError"

\* a NAK response of the wrong length
C14_Witness ==
    /\ decLog.called
    /\ Len(decLog.p) = POLL_RESPONSE_LENGTH + 1
    /\ decLog.p[POS_FUNCTION_CODE + 1] = 139
    /\ decLog.exc = "ModbusNotEnabledError"

(* ---- C15 ---- *)
\* C15: for every response whose length is not 137 and whose NAK bit is
\* not set, the lengths 0..7 that hold no status byte included,
\* extract_registers raises PacketSizeError built with expect = 137 and
\* actual = the length.
C15_SizeMismatch ==
    (decLog.called /\ Len(decLog.p) # POLL_RESPONSE_LENGTH
       /\ ~(Len(decLog.p) > POS_FUNCTION_CODE
              /\ Bit08(decLog.p[POS_FUNCTION_CODE + 1])))
        => /\ decLog.exc = "PacketSizeError"
           /\ decLog.args = <<POLL_RESPONSE_LENGTH, Len(decLog.p)>>

(* ---- C16 ---- *)
\* the errors the codec declares
TypedErrors == {"ModbusNotEnabledError", "PacketSizeError"}

\* a periodic datagram of 55 or 56 bytes, or an event datagram that ends
\* before the last event it declares (laid out as EventPacketPacket reads it)
Truncated(p) ==
    /\ Len(p) >= 55
    /\ \/ p[POS_FUNCTION_CODE + 1] = FC_PERIODIC /\ Len(p) <= REG_NUM_OFFSET
       \/ /\ p[POS_FUNCTION_CODE + 1] = FC_EVENT
          /\ p[NUMBER_OF_EVENTS_OFFSET + 1] >= 1
          /\ Len(p) < EVT_REG_VAL_OFFSET
                         + (p[NUMBER_OF_EVENTS_OFFSET + 1] - 2) * 4 + 2

\* C16: on input of any length, empty and truncated included,
\* extract_registers, the NAK check of send() and parse_server_recv never
\* index past the end of the input (no IndexError); what a truncated push
\* datagram yields is a typed error or None.
C16_FailClosed ==
    /\ decLog.called => decLog.exc \in {"none"} \cup TypedErrors
    /\ sendLog.exc # "IndexError"
    /\ pushLog.called =>
         /\ pushLog.exc # "IndexError"
         /\ Truncated(pushLog.p) =>
               (pushLog.kind = "None" \/ pushLog.exc \in TypedErrors)

(* ---- C17 ---- *)
\* C17: for a 137-byte response with bit 0x08 clear at offset 7,
\* extract_registers returns 64 values, the i-th (from 0) being
\* 256 * p[9 + 2i] + p[10 + 2i].
C17_BigEndianRegisters ==
    (decLog.called /\ Len(decLog.p) = POLL_RESPONSE_LENGTH
       /\ ~Bit08(decLog.p[POS_FUNCTION_CODE + 1]))
        => /\ decLog.exc = "none"
           /\ Len(decLog.regs) = 64
           /\ \A i \in 0..63 :
                 decLog.regs[i + 1] = 256 * decLog.p[9 + 2 * i + 1]
                                        + decLog.p[10 + 2 * i + 1]

\* the response whose byte at offset o is o: register 0 is 0x090A
C17_Witness ==
    /\ decLog.called
    /\ decLog.p = PatResp(POLL_RESPONSE_LENGTH, 3, 1)
    /\ decLog.exc = "none"
    /\ decLog.regs[1] = 2314
    /\ decLog.regs[64] = 256 * 135 + 136

(* ---- C18 ---- *)
\* C18: with the builds made one after another, every build of a frame
\* (poll, command, advertise, a bare header) takes exactly one id from
\* packet_builder._pid, the ids run 1, 2, ..., 255, 1, 2, ... and 0 is never
\* handed out; the id is what the frame carries in its first two bytes.
C18_PidCycle ==
    [][/\ pb_pid' = (IF pb_pid = 255 THEN 1 ELSE pb_pid + 1)
       /\ pb_pid' \in 1..255
       /\ frame'.id = pb_pid'
       /\ frame'.exc = "none"
            => 256 * frame'.bytes[1] + frame'.bytes[2] = frame'.id]_vars

\* the id that follows 255
C18_Witness ==
    /\ frame.wrapped
    /\ pb_pid = 1
    /\ frame.id = 1
    /\ frame.kind = "advertise"

(* ---- C19 ---- *)
\* C19: the first 7 bytes of every frame built are
\* [id: u16 big-endian][0][0][dlen: u16 big-endian][checksum], the checksum
\* being the sum of the 6 bytes before it modulo 256, for every id and every
\* data length of 16 bits.
C19_HeaderChecksum ==
    (frame.kind # "none" /\ frame.exc = "none") =>
        LET h == SubSeq(frame.bytes, 1, HEADER_LENGTH)
            dlen == IF frame.kind = "header" THEN frame.args[1] ELSE 6
        IN  /\ Len(frame.bytes) >= HEADER_LENGTH
            /\ frame.kind = "header" => Len(frame.bytes) = HEADER_LENGTH
            /\ 256 * h[1] + h[2] = frame.id
            /\ h[3] = 0 /\ h[4] = 0
            /\ 256 * h[5] + h[6] = dlen
            /\ h[7] = (h[1] + h[2] + h[3] + h[4] + h[5] + h[6]) % 256
            /\ \A i \in 1..HEADER_LENGTH : h[i] \in 0..255

\* a header whose six bytes sum to more than 255
C19_Witness ==
    /\ frame.kind = "header" /\ frame.exc = "none"
    /\ frame.id = 255
    /\ frame.args = <<65535>>
    /\ frame.bytes = <<0, 255, 0, 0, 255, 255, 253>>

(* ---- C20 ---- *)
\* C20 as stated: poll() gives 13 bytes, the header followed by 0x03,
\* 0x0000 and 0x0040; command(index, value) with index and value in 0..65535
\* gives 13 bytes, the header followed by 0x06, the index and the value as
\* big-endian u16.
C20_ThirteenBytes ==
    /\ frame.kind = "poll" =>
         /\ frame.exc = "none"
         /\ Len(frame.bytes) = 13
    /\ (frame.kind = "command" /\ frame.args[1] \in 0..65535
          /\ frame.args[2] \in 0..65535) =>
         /\ frame.exc = "none"
         /\ Len(frame.bytes) = 13

\* C20 amended: poll() gives 12 bytes, the 7-byte header followed by 0x03,
\* 0x0000 and 0x0040; command(index, value) with index and value in 0..65535
\* gives 12 bytes, the header followed by 0x06, the index and the value as
\* big-endian u16, neither of them changed or rejected.
C20_TwelveBytes ==
    /\ frame.kind = "poll" =>
         /\ frame.exc = "none"
         /\ Len(frame.bytes) = 12
         /\ SubSeq(frame.bytes, HEADER_LENGTH + 1, 12) = <<3, 0, 0, 0, 64>>
    /\ (frame.kind = "command" /\ frame.args[1] \in 0..65535
          /\ frame.args[2] \in 0..65535) =>
         /\ frame.exc = "none"
         /\ Len(frame.bytes) = 12
         /\ frame.bytes[HEADER_LENGTH + 1] = 6
         /\ 256 * frame.bytes[9] + frame.bytes[10] = frame.args[1]
         /\ 256 * frame.bytes[11] + frame.bytes[12] = frame.args[2]
         /\ \A i \in 9..12 : frame.bytes[i] \in 0..255

\* command(0x1234, 0xFFFF)
C20_Witness ==
    /\ frame.kind = "command" /\ frame.exc = "none"
    /\ frame.args = <<4660, 65535>>
    /\ SubSeq(frame.bytes, HEADER_LENGTH + 1, 12) = <<6, 18, 52, 255, 255>>

(* ---- C21 ---- *)
\* C21: parse_server_recv returns None for every datagram shorter than 55
\* bytes and for every datagram whose byte 7 is neither 0x24 nor 0x2E; for
\* every datagram of at least 55 bytes it returns a Periodic packet when
\* byte 7 is 0x24 and an Event packet when byte 7 is 0x2E.
C21_DecodeByLengthAndCode ==
    pushLog.called =>
        LET p == pushLog.p
        IN  IF Len(p) < 55 \/ p[POS_FUNCTION_CODE + 1] \notin {FC_PERIODIC, FC_EVENT}
            THEN pushLog.exc = "none" /\ pushLog.kind = "None"
            ELSE IF p[POS_FUNCTION_CODE + 1] = FC_PERIODIC
            THEN pushLog.exc = "none" /\ pushLog.kind = "periodic"
            ELSE pushLog.exc = "none" /\ pushLog.kind = "event"

(* ---- C22 ---- *)
\* a push datagram that is complete: 55 bytes or more, function code 0x2E
\* or 0x24, an SSID that decodes, and as long as what it declares
WellFormed(p) ==
    /\ Len(p) >= 55
    /\ p[POS_FUNCTION_CODE + 1] \in {FC_EVENT, FC_PERIODIC}
    /\ utf8_valid(to_null_terminate_string(
                      slice(p, SSID_OFFSET, SSID_OFFSET + SSID_SIZE)).str)
    /\ to_null_terminate_string(
           slice(p, SSID_OFFSET, SSID_OFFSET + SSID_SIZE)).exc = "none"
    /\ IF p[POS_FUNCTION_CODE + 1] = FC_EVENT
       THEN Len(p) >= EVT_REG_IDX_OFFSET + 4 * p[NUMBER_OF_EVENTS_OFFSET + 1]
       ELSE Len(p) >= REG_VAL_OFFSET
\* the hardware id of the datagram is that of a registered session
Registered(p) ==
    /\ Len(p) >= MAC_OFFSET + MAC_SIZE
    /\ to_string(slice(p, MAC_OFFSET, MAC_OFFSET + MAC_SIZE)) \in SessionMacs

\* C22: datagram_received drops a malformed datagram, and one whose
\* hardware id matches no registered session, without raising and without
\* changing any session; a valid datagram of a registered session, whatever
\* was received before it, goes to that session alone: an Event packet to
\* handle_event, a Periodic packet to handle_update.
C22_DropsAndDispatches ==
    [][(listen'.called /\ listen' # listen) =>
        LET p == listen'.data
            mac == to_string(slice(p, MAC_OFFSET, MAC_OFFSET + MAC_SIZE))
        IN  IF ~WellFormed(p) \/ ~Registered(p)
            THEN /\ listen'.exc = "none"
                 /\ listen'.to = "none"
                 /\ listen'.sessions = listen.sessions
            ELSE /\ listen'.exc = "none"
                 /\ listen'.to = mac
                 /\ listen'.how = (IF p[POS_FUNCTION_CODE + 1] = FC_EVENT
                                   THEN "handle_event" ELSE "handle_update")
                 /\ listen'.sessions[mac] # listen.sessions[mac]
                 /\ \A k \in SessionMacs \ {mac} :
                        listen'.sessions[k] = listen.sessions[k]]_vars

(* ---- C23 ---- *)
\* C23: in a decoded Event packet the i-th event (i from 0) the decoding
\* added is read from the event-array base plus 4*i: its register index
\* from bytes 55+4i..56+4i and its register value from bytes 57+4i..58+4i;
\* event 0 is read from offsets 55 and 57.
C23_EventOffsets ==
    (pushLog.called /\ pushLog.kind = "event") =>
        LET p == pushLog.p
            n == pushLog.pkt.number_of_events
            ev == pushLog.pkt.events
            base == Len(ev) - n
        IN  \A i \in 0..(n - 1) :
              /\ ev[base + i + 1].register_index
                    = from_bytes(slice(p, EVT_REG_IDX_OFFSET + 4 * i,
                                       EVT_REG_IDX_OFFSET + 4 * i + 2))
              /\ ev[base + i + 1].register_value
                    = from_bytes(slice(p, EVT_REG_VAL_OFFSET + 4 * i,
                                       EVT_REG_VAL_OFFSET + 4 * i + 2))

(* ---- C24 ---- *)
\* C24: the elapsed-time test and the timestamp update of Debouncer.run act
\* atomically: when callers on different threads are inside update() of one
\* proxy at the same time, after the window has expired and with clock
\* readings no more than the window apart, the poll is made exactly once.
C24_OnePollPerRace ==
    (/\ \A c \in Callers : deb.thr[c].pc = "done"
     /\ deb.overlap
     /\ \A c \in Callers : deb.thr[c].t > DEFAULT_DEBOUNCE_DURATION
     /\ \A c, o \in Callers :
            deb.thr[c].t - deb.thr[o].t <= DEFAULT_DEBOUNCE_DURATION)
        => deb.callbacks = 1

\* C24 as the code has it: the test and the update are separate steps, so
\* under the same conditions the poll is made at least once and at most
\* once per caller, and exactly once when no call began while another was
\* inside run().
C24_OnePollPerCallerAtMost ==
    (/\ \A c \in Callers : deb.thr[c].pc = "done"
     /\ \A c \in Callers : deb.thr[c].t > DEFAULT_DEBOUNCE_DURATION
     /\ \A c, o \in Callers :
            deb.thr[c].t - deb.thr[o].t <= DEFAULT_DEBOUNCE_DURATION)
        => /\ deb.callbacks >= 1
           /\ deb.callbacks <= NumCallers
           /\ ~deb.overlap => deb.callbacks = 1

\* two calls that overlapped after the window expired, and two polls
C24_Witness ==
    /\ \A c \in Callers : deb.thr[c].pc = "done" /\ deb.thr[c].ret = "True"
    /\ deb.overlap
    /\ \A c \in Callers : deb.thr[c].t > DEFAULT_DEBOUNCE_DURATION
    /\ deb.callbacks >= 2

(* ---- C25 ---- *)
\* C25: when threads build frames at the same time from the one counter,
\* every id pid() returns lies in 1..255, and two calls that overlapped
\* return different ids.
C25_ConcurrentIds ==
    /\ \A b \in Builders :
          (builders[b].pc = "idle" /\ builders[b].returned)
              => builders[b].ret \in 1..255
    /\ \A b, o \in Builders :
          (/\ b # o
           /\ builders[b].pc = "idle" /\ builders[b].returned
           /\ builders[o].pc = "idle" /\ builders[o].returned
           /\ o \in builders[b].with)
              => builders[b].ret # builders[o].ret

(* ---- C26 ---- *)
\* C26: the poll that SihasProxy.command() makes counts as the last poll
\* for debouncing: an update(force=False) that comes less than `duration`
\* seconds after it makes no poll.
C26_RefreshCountsAsPoll ==
    [][(CallStep /\ last'.op = "update" /\ ~last'.force
          /\ refreshAt # -1 /\ now - refreshAt < DEFAULT_DEBOUNCE_DURATION)
          => last'.polls = 0]_vars

\* C26 as the code has it: command() polls without going through the
\* debouncer and leaves _last_excuted where it was, so an
\* update(force=False) that comes less than `duration` seconds after that
\* poll makes no poll only if no more than `duration` seconds have passed
\* since _last_excuted, and polls otherwise.
C26_RefreshLeavesStamp ==
    [][/\ (CallStep /\ last'.op = "command")
            => (last'.polls = 1 /\ refreshAt' = now
                  /\ last_excuted' = last_excuted)
       /\ (CallStep /\ last'.op = "update" /\ ~last'.force
             /\ refreshAt # -1 /\ now - refreshAt < DEFAULT_DEBOUNCE_DURATION)
            => /\ last'.polls = 0 <=> Elapsed <= DEFAULT_DEBOUNCE_DURATION
               /\ last'.polls = 1 <=> Elapsed > DEFAULT_DEBOUNCE_DURATION]_vars

\* an update(force=False) that polled in the second in which command() had
\* polled
C26_Witness ==
    /\ last.op = "update" /\ ~last.force /\ last.ran /\ last.polls = 1
    /\ refreshAt = now
    /\ pollAt = now

(* ---- C27 ---- *)
\* C27: in the value that set_hvac_mode or set_temperature sends, every
\* bit-field but the targeted one equals that field of the room register
\* in the proxy's bank as last polled, after any sequence of writes and
\* updates.
C27_OnlyTargetedField ==
    (hcm.op \in {"set_hvac_mode", "set_temperature"} /\ ~hcm.sent.isNone)
        => \A mask \in {HCM_MASK_ONOFF, HCM_MASK_OPMOD, HCM_MASK_VALVE,
                        HCM_MASK_CURTMP, HCM_MASK_SETTMP} :
              (mask # (IF hcm.op = "set_hvac_mode" THEN HCM_MASK_ONOFF
                       ELSE HCM_MASK_SETTMP))
                  => band(hcm.sent.val, mask) = band(hcm.base, mask)

(* ---- C28 ---- *)
\* C28: for every budget retry >= 0 and every transport whose receives
\* return a datagram or time out, send() ends, by returning or raising,
\* having sent at most `retry` datagrams; it sends nothing after the first
\* reply, whatever the reply is; and with retry = 0 it sends nothing and
\* raises socket.timeout.
C28_BoundedSends ==
    (/\ sendLog.called
     /\ \A i \in 1..Len(sendLog.script) : sendLog.script[i].kind # "oserror")
        => /\ sendLog.sent \in 0..sendLog.retry
           /\ sendLog.exc \in {"none", "socket.timeout", "IndexError",
                               "ModbusNotEnabledError"}
           /\ (~AllTimeout(sendLog.script)
                 /\ LeadingTimeouts(sendLog.script) < sendLog.retry)
                => /\ sendLog.sent = LeadingTimeouts(sendLog.script) + 1
                   /\ sendLog.exc # "socket.timeout"
           /\ (AllTimeout(sendLog.script)
                 \/ LeadingTimeouts(sendLog.script) >= sendLog.retry)
                => /\ sendLog.sent = sendLog.retry
                   /\ sendLog.exc = "socket.timeout"
           /\ sendLog.retry = 0
                => (sendLog.sent = 0 /\ sendLog.exc = "socket.timeout")

\* send() with retry = 0 against a transport that would have replied at once
C28_Witness ==
    /\ sendLog.called
    /\ sendLog.retry = 0
    /\ sendLog.script # <<>>
    /\ sendLog.script[1].kind = "data"
    /\ sendLog.sent = 0
    /\ sendLog.exc = "socket.timeout"

(* ---- C29 ---- *)
\* C29: in every reachable state the register bank of a SihasProxy holds
\* exactly 64 values, each in 0..65535: 64 zeros until a poll first
\* succeeds, and from then on the complete result of the most recent
\* successful poll; no call leaves a bank that is partly written.
C29_BankWholesale ==
    /\ Len(registers) = REG_LENG
    /\ \A i \in 1..REG_LENG : registers[i] \in 0..65535
    /\ registers \in {ZeroBank} \cup Banks
    /\ registers = goodBank
    /\ (pollAt = -1 \/ lastCycle = "none") => registers = ZeroBank

\* a successful poll has just replaced the bank by the 64 values it read
C29_Witness ==
    /\ last.poll = "ok"
    /\ pollAt = now
    /\ registers = Bank(1)
    /\ goodBank = Bank(1)

(* ---- C30 ---- *)
\* C30: every decoded Event packet is a value of its own: the events of
\* the packet returned for a datagram are exactly number_of_events
\* entries, each read from that datagram, and decoding a later datagram
\* leaves the events of a packet returned before as they were.  (The
\* events of every packet are the one list of the class body, `events`.)
C30_EventsPerPacket ==
    [][pushLog'.called =>
        /\ pushLog'.kind = "event" =>
              LET pkt == pushLog'.pkt
              IN  /\ Len(pkt.events) = pkt.number_of_events
                  /\ \A i \in 1..Len(pkt.events) :
                        \E j \in 0..(pkt.number_of_events - 1) :
                            pkt.events[i] = EventData(pushLog'.p, j)
        /\ (pushLog.called /\ pushLog.kind = "event") => events' = events]_vars
====
